---- MODULE Spec2Model ----
(***************************************************************************)
(* Kinematic hand model of the Mercury hand tracker (kinematic_main.cpp).  *)
(*                                                                         *)
(* Arithmetic is exact.  Positions are integer vectors (one bone length is *)
(* BoneLen units), angles are whole degrees, rotations are an integer      *)
(* rotation matrix times a rotation about one coordinate axis.             *)
(***************************************************************************)
EXTENDS Integers, Sequences, FiniteSets, TLC

VARIABLES pc, stack, i, finger_idx, hands, in_pts, hand_idx, out_set,
          last, trace, count, hinge, prox, entry, qwerty, gui, inst, roles

vars == <<pc, stack, i, finger_idx, hands, in_pts, hand_idx, out_set,
          last, trace, count, hinge, prox, entry, qwerty, gui, inst, roles>>

(***************************************************************************)
(* Vectors and matrices (Eigen::Vector3f, Eigen::Matrix3f).                *)
(***************************************************************************)
NaN == 99999999

NaNVec == <<NaN, NaN, NaN>>

IsNaNVec(v) == v[1] = NaN \/ v[2] = NaN \/ v[3] = NaN

Zero3 == <<0, 0, 0>>

UnitX == <<1, 0, 0>>

UnitY == <<0, 1, 0>>

UnitZ == <<0, 0, 1>>

VNeg(a) == IF IsNaNVec(a) THEN NaNVec ELSE <<-a[1], -a[2], -a[3]>>

VAdd(a, b) ==
  IF IsNaNVec(a) \/ IsNaNVec(b) THEN NaNVec
  ELSE <<a[1] + b[1], a[2] + b[2], a[3] + b[3]>>

VSub(a, b) == VAdd(a, VNeg(b))

Dot(a, b) == a[1] * b[1] + a[2] * b[2] + a[3] * b[3]

Cross(a, b) ==
  <<a[2] * b[3] - a[3] * b[2], a[3] * b[1] - a[1] * b[3], a[1] * b[2] - a[2] * b[1]>>

\* v * (1.0f / n): the float division; 1/0 is inf and 0 * inf is NaN.
VDivide(v, n) ==
  IF IsNaNVec(v) \/ n = 0 THEN NaNVec
  ELSE <<v[1] \div n, v[2] \div n, v[3] \div n>>

Identity3 == <<UnitX, UnitY, UnitZ>>

MatVec(m, v) == <<Dot(m[1], v), Dot(m[2], v), Dot(m[3], v)>>

Transpose(m) ==
  <<<<m[1][1], m[2][1], m[3][1]>>, <<m[1][2], m[2][2], m[3][2]>>, <<m[1][3], m[2][3], m[3][3]>>>>

MatMul(a, b) ==
  LET bt == Transpose(b)
  IN  <<MatVec(bt, a[1]), MatVec(bt, a[2]), MatVec(bt, a[3])>>

Det(m) == Dot(m[1], Cross(m[2], m[3]))

Axes == {UnitX, UnitY, UnitZ, VNeg(UnitX), VNeg(UnitY), VNeg(UnitZ)}

\* The rotation matrices with integer entries.
RotGroup ==
  {m \in Axes \X Axes \X Axes : MatMul(m, Transpose(m)) = Identity3 /\ Det(m) = 1}

Rx90 == <<<<1, 0, 0>>, <<0, 0, -1>>, <<0, 1, 0>>>>

Ry90 == <<<<0, 0, 1>>, <<0, 1, 0>>, <<-1, 0, 0>>>>

Rz90 == <<<<0, -1, 0>>, <<1, 0, 0>>, <<0, 0, 1>>>>

AxisVec(ax) == CASE ax = 1 -> UnitX [] ax = 2 -> UnitY [] ax = 3 -> UnitZ

\* The rotation by q quarter turns about coordinate axis ax.
QuarterTurns(ax, q) ==
  LET m == CASE ax = 1 -> Rx90 [] ax = 2 -> Ry90 [] ax = 3 -> Rz90
  IN  CASE q = 0 -> Identity3
        [] q = 1 -> m
        [] q = 2 -> MatMul(m, m)
        [] q = 3 -> Transpose(m)

(***************************************************************************)
(* Rotations  g * R(ax, ang):  an integer rotation matrix g followed (on   *)
(* the right) by a rotation of ang whole degrees about coordinate axis ax. *)
(* Normal form: ang in -44..45, and ax = 3 when ang = 0.  ok = FALSE is a  *)
(* matrix the exact domain cannot hold (in the program: some float         *)
(* matrix, possibly NaN).                                                  *)
(***************************************************************************)
BadRot == [g |-> Identity3, ax |-> 3, ang |-> 0, ok |-> FALSE]

MkRot(g, ax, ang) ==
  LET q == (ang + 44) \div 90
      r == ang - 90 * q
  IN  [g |-> MatMul(g, QuarterTurns(ax, q % 4)), ax |-> IF r = 0 THEN 3 ELSE ax,
       ang |-> r, ok |-> TRUE]

IdRot == MkRot(Identity3, 3, 0)

\* Matrix product r1 * r2.
RotMul(r1, r2) ==
  IF ~r1.ok \/ ~r2.ok THEN BadRot
  ELSE IF r1.ang = 0 THEN MkRot(MatMul(r1.g, r2.g), r2.ax, r2.ang)
  ELSE LET w == MatVec(Transpose(r2.g), AxisVec(r1.ax))
           k == CHOOSE n \in 1..3 : w[n] # 0
           g == MatMul(r1.g, r2.g)
       IN  IF r2.ang = 0 THEN MkRot(g, k, w[k] * r1.ang)
           ELSE IF k = r2.ax THEN MkRot(g, k, w[k] * r1.ang + r2.ang)
           ELSE BadRot

\* Matrix inverse (of a rotation: the transpose).
RotInv(r) ==
  IF ~r.ok THEN BadRot
  ELSE RotMul(MkRot(Identity3, r.ax, -r.ang), MkRot(Transpose(r.g), 3, 0))

\* Matrix times vector.
RotApply(r, v) ==
  IF ~r.ok \/ IsNaNVec(v) THEN NaNVec
  ELSE IF r.ang = 0 \/ (\A n \in 1..3 : n # r.ax => v[n] = 0) THEN MatVec(r.g, v)
  ELSE NaNVec

\* Eigen::AngleAxisf(angle, axis).toRotationMatrix() for a coordinate axis.
AngleAxis(ang, ax) == MkRot(Identity3, ax, ang)

IsAxisDir(v) == Cardinality({k \in 1..3 : v[k] # 0}) = 1

Sign(n) == IF n > 0 THEN 1 ELSE IF n < 0 THEN -1 ELSE 0

Abs(n) == IF n < 0 THEN -n ELSE n

UnitOf(v) == <<Sign(v[1]), Sign(v[2]), Sign(v[3])>>

\* Eigen::Quaternionf().setFromTwoVectors(a, b).matrix(): the shortest arc
\* taking direction a to direction b.
setFromTwoVectors(a, b) ==
  IF IsNaNVec(a) \/ IsNaNVec(b) \/ a = Zero3 \/ b = Zero3 THEN BadRot
  ELSE IF Cross(a, b) = Zero3
    THEN IF Dot(a, b) > 0 THEN IdRot ELSE BadRot
  ELSE IF Dot(a, b) = 0 /\ IsAxisDir(a) /\ IsAxisDir(b)
    THEN LET n == Cross(UnitOf(a), UnitOf(b))
         IN  MkRot(CHOOSE g \in RotGroup :
                     MatVec(g, UnitOf(a)) = UnitOf(b) /\ MatVec(g, n) = n, 3, 0)
  ELSE BadRot

(***************************************************************************)
(* Affine transforms (Eigen::Affine3f): linear part and translation.       *)
(***************************************************************************)
Affine(lin, t) == [lin |-> lin, t |-> t]

AffMul(a, b) == Affine(RotMul(a.lin, b.lin), VAdd(RotApply(a.lin, b.t), a.t))

AffApply(a, p) == VAdd(RotApply(a.lin, p), a.t)

AffInvApply(a, p) == RotApply(RotInv(a.lin), VSub(p, a.t))

(***************************************************************************)
(* The skeleton: kinematic_hand_4f, finger_t, bone_t and the statics.      *)
(***************************************************************************)
Fingers == 0..4

Bones == 0..4

BoneLen == 12

\* The fixed translation of a bone relative to its parent: a metacarpal
\* sits beside the wrist, every other bone one bone length down local -Z.
bone_translation(f, b) ==
  IF b = 0 THEN <<(f - 2) * BoneLen, IF f = 0 THEN BoneLen ELSE 0, 0>>
  ELSE <<0, 0, -BoneLen>>

\* bone_t::keypoint_idx_21
keypoint_idx_21(f, b) == IF b = 0 THEN 0 ELSE 1 + 4 * f + (b - 1)

\* Forward kinematics, root to leaf: each bone's world pose is its parent's
\* world pose times its own relation; a metacarpal's parent is the wrist.
RECURSIVE WorldPoseOf(_, _, _)
WorldPoseOf(h, f, b) ==
  IF b = 0 THEN AffMul(h.wrist_relation, h.bone_relation[f][0])
  ELSE AffMul(WorldPoseOf(h, f, b - 1), h.bone_relation[f][b])

_statics_init_world_poses(h) ==
  [h EXCEPT !.world_pose = [f \in Fingers |-> [b \in Bones |-> WorldPoseOf(h, f, b)]],
            !.written = FALSE]

\* A hand whose bone rotations are rot[f][b] and whose wrist pose is w, with
\* its world poses computed.
MakeHand(rot, w) ==
  _statics_init_world_poses(
    [wrist_relation |-> w,
     bone_relation |-> [f \in Fingers |-> [b \in Bones |->
                          Affine(rot[f][b], bone_translation(f, b))]],
     world_pose |-> [f \in Fingers |-> [b \in Bones |-> Affine(IdRot, Zero3)]],
     kinematic |-> [k \in 0..20 |-> Zero3],
     t_jts |-> [k \in 0..20 |-> Zero3],
     t_jts_as_mat |-> [k \in 0..20 |-> Zero3],
     written |-> FALSE])

\* The 21 joint positions of a hand, in keypoint order (the columns two()
\* writes into hand->kinematic).
JointPositions(h) ==
  [k \in 0..20 |->
     IF k = 0 THEN h.wrist_relation.t
     ELSE h.world_pose[(k - 1) \div 4][((k - 1) % 4) + 1].t]

(***************************************************************************)
(* two(): rigid alignment of the hand onto the target points.              *)
(***************************************************************************)
\* Eigen::umeyama(src, dst, false): the rigid transform that maps the 21
\* points src onto dst with least squared error.  It is computed when the
\* error is zero (dst is a rotated and translated copy of src).
umeyama(src, dst) ==
  IF \E k \in 0..20 : IsNaNVec(src[k]) \/ IsNaNVec(dst[k]) THEN Affine(BadRot, NaNVec)
  ELSE LET fits == {g \in RotGroup : \A k \in 1..20 :
                      VSub(dst[k], dst[0]) = MatVec(g, VSub(src[k], src[0]))}
       IN  IF fits = {} THEN Affine(BadRot, NaNVec)
           ELSE LET g == CHOOSE m \in fits : TRUE
                IN  Affine(MkRot(g, 3, 0), VSub(dst[0], MatVec(g, src[0])))

\* The wrist pose overwritten with the alignment instead of composed with it.
align_wrist_overwrite(aff3d, wrist_relation) == aff3d

\* wrist_relation = aff3d * wrist_relation
align_wrist(aff3d, wrist_relation) == AffMul(aff3d, wrist_relation)

two(h) ==
  LET kin == JointPositions(h)
      aff3d == umeyama(kin, h.t_jts_as_mat)
  IN  _statics_init_world_poses(
        [h EXCEPT !.kinematic = kin,
                  !.wrist_relation = align_wrist(aff3d, h.wrist_relation),
                  !.written = TRUE])

(***************************************************************************)
(* do_it_for_bone(): swing a bone towards the targets of its descendants.  *)
(***************************************************************************)
RECURSIVE Gcd(_, _)
Gcd(a, b) == IF b = 0 THEN a ELSE Gcd(b, a % b)

\* Vector3f::normalized(): the direction of v; the zero vector is left alone.
normalized(v) ==
  IF IsNaNVec(v) THEN NaNVec
  ELSE LET d == Gcd(Gcd(Abs(v[1]), Abs(v[2])), Abs(v[3]))
       IN  IF d = 0 THEN v ELSE <<v[1] \div d, v[2] \div d, v[3] \div d>>

RECURSIVE VSum(_, _)
VSum(f, S) ==
  IF S = {} THEN Zero3
  ELSE LET x == CHOOSE y \in S : TRUE IN VAdd(f[x], VSum(f, S \ {x}))

\* The loop of do_it_for_bone stopping one bone short.
children_one_short(bone_idx) == {idx \in Bones : idx >= bone_idx + 1 /\ idx < 4}

\* for (int idx = bone_idx + 1; idx < 5; idx++)
children(bone_idx) == {idx \in Bones : idx >= bone_idx + 1}

\* rot * bone_relation.linear(): the estimate composed on the other side.
compose_estimate_on_left(linear, rot) == RotMul(rot, linear)

\* bone_relation.linear() * rot
compose_estimate(linear, rot) == RotMul(linear, rot)

do_it_for_bone_rot(h, f, bone_idx) ==
  LET num_children == Cardinality(children(bone_idx))
      tsum == VSum([idx \in Bones |-> h.t_jts[keypoint_idx_21(f, idx)]], children(bone_idx))
      ksum == VSum([idx \in Bones |-> h.world_pose[f][idx].t], children(bone_idx))
      kine == AffInvApply(h.world_pose[f][bone_idx], VDivide(ksum, num_children))
      target == AffInvApply(h.world_pose[f][bone_idx], VDivide(tsum, num_children))
  IN  setFromTwoVectors(normalized(kine), normalized(target))

\* The estimate writing the whole relation: the translation turns with the
\* rotation.
do_it_for_bone_whole_relation(h, f, bone_idx) ==
  [h EXCEPT !.bone_relation[f][bone_idx] =
              Affine(compose_estimate(@.lin, do_it_for_bone_rot(h, f, bone_idx)),
                     VNeg(@.t)),
            !.written = TRUE]

do_it_for_bone(h, f, bone_idx) ==
  [h EXCEPT !.bone_relation[f][bone_idx].lin =
              compose_estimate(@, do_it_for_bone_rot(h, f, bone_idx)),
            !.written = TRUE]

(***************************************************************************)
(* clamp_to_x_axis(): the hinge limit.                                     *)
(***************************************************************************)
TwoPi == 360

\* An angle brought into (-180, 180].
Wrap(a) == ((a + 179) % 360) - 179

\* atan2(new_ortho_direction(2), new_ortho_direction(1)) where
\* new_ortho_direction = linear * UnitY: the angle about X of a rotation
\* that keeps X in place.
rotation_value_of(linear) ==
  IF ~linear.ok \/ MatVec(linear.g, UnitX) # UnitX \/ (linear.ang # 0 /\ linear.ax # 1)
    THEN NaN
  ELSE LET y == MatVec(linear.g, UnitY)
           q == CASE y = UnitY -> 0 [] y = UnitZ -> 1
                  [] y = VNeg(UnitY) -> 2 [] y = VNeg(UnitZ) -> 3
       IN  Wrap(90 * q + linear.ang)

\* The test with || in place of &&.
within_limits_either(rotation_value, min_angle, max_angle) ==
  rotation_value # NaN /\ (rotation_value < max_angle \/ rotation_value > min_angle)

\* if (rotation_value < max_angle && rotation_value > min_angle) return;
within_limits(rotation_value, min_angle, max_angle) ==
  rotation_value # NaN /\ rotation_value < max_angle /\ rotation_value > min_angle

\* The bound the angle is set to when it is not within the limits.
nearest_bound(rotation_value, min_angle, max_angle) ==
  IF rotation_value = NaN THEN max_angle
  ELSE LET positive_rotation_value ==
             IF rotation_value < 0 THEN TwoPi - rotation_value ELSE rotation_value
           negative_rotation_value ==
             IF rotation_value < 0 THEN rotation_value ELSE (-TwoPi) + rotation_value
       IN  IF (positive_rotation_value - max_angle) > (min_angle - negative_rotation_value)
             THEN min_angle
             ELSE max_angle

\* The correction that brings the image of the X axis back onto the X axis.
lock_to_x_axis(linear) ==
  LET axis_rotated_by_input == RotApply(linear, UnitX)
      correction_rot == setFromTwoVectors(normalized(axis_rotated_by_input), UnitX)
  IN  RotMul(correction_rot, linear)

clamp_to_x_axis_rot(linear, clamp_angle, min_angle, max_angle) ==
  LET locked == lock_to_x_axis(linear)
      rotation_value == rotation_value_of(locked)
  IN  IF ~clamp_angle THEN locked
      ELSE IF within_limits(rotation_value, min_angle, max_angle) THEN locked
      ELSE AngleAxis(nearest_bound(rotation_value, min_angle, max_angle), 1)

clamp_to_x_axis(h, f, bone_idx, clamp_angle, min_angle, max_angle) ==
  [h EXCEPT !.bone_relation[f][bone_idx].lin =
              clamp_to_x_axis_rot(@, clamp_angle, min_angle, max_angle),
            !.written = TRUE]

(***************************************************************************)
(* clamp_proximals(): the swing/twist limit.                               *)
(***************************************************************************)
\* tan(rad(deg)) in thousandths, for the angles the callers pass.
tan_rad(deg) ==
  LET t == CASE Abs(deg) = 0 -> 0 [] Abs(deg) = 10 -> 176 [] Abs(deg) = 20 -> 364
             [] Abs(deg) = 30 -> 577 [] Abs(deg) = 40 -> 839 [] Abs(deg) = 89 -> 57290
  IN  Sign(deg) * t

\* 1 / 0.000001f
EpsInv == 1000000

\* floor(1000 * n / d) for d > 0, digit by digit so that no product leaves
\* 32 bits, and whether the division is exact.  A fraction beyond +-58 (past
\* every limit the callers pass) is cut there.
Milli(n, d) ==
  LET k == n \div d
      r0 == n % d
      d1 == (r0 * 10) \div d
      r1 == (r0 * 10) % d
      d2 == (r1 * 10) \div d
      r2 == (r1 * 10) % d
      d3 == (r2 * 10) \div d
      r3 == (r2 * 10) % d
  IN  IF k >= 58 THEN [m |-> 58000, exact |-> FALSE]
      ELSE IF k <= -59 THEN [m |-> -59000, exact |-> FALSE]
      ELSE [m |-> k * 1000 + d1 * 100 + d2 * 10 + d3, exact |-> r3 = 0]

\* A fraction n/d (d > 0) against a limit given in thousandths.
FracLess(n, d, lim) == Milli(n, d).m < lim

FracGreater(n, d, lim) ==
  LET q == Milli(n, d)
  IN  q.m > lim \/ (q.m = lim /\ ~q.exact)

\* clamp(&x, lo, hi) on the fraction x = [n, d].
clamp(x, lo, hi) ==
  IF FracLess(x.n, x.d, lo) THEN [n |-> lo, d |-> 1000]
  ELSE IF FracGreater(x.n, x.d, hi) THEN [n |-> hi, d |-> 1000]
  ELSE x

\* Eigen::AngleAxisf(matrix): the angle, in [0, 180], and the unit axis.
AngleAxisOf(r) ==
  IF ~r.ok THEN [angle |-> NaN, axis |-> NaNVec]
  ELSE IF r.ang = 0 /\ r.g = Identity3 THEN [angle |-> 0, axis |-> UnitX]
  ELSE LET fixed == {ax \in 1..3 : MatVec(r.g, AxisVec(ax)) = AxisVec(ax)
                                   /\ (r.ang = 0 \/ r.ax = ax)}
       IN  IF fixed = {} THEN [angle |-> NaN, axis |-> NaNVec]
           ELSE LET ax == CHOOSE a \in fixed : TRUE
                    q == CHOOSE n \in 0..3 : QuarterTurns(ax, n) = r.g
                    total == Wrap(90 * q + r.ang)
                IN  [angle |-> Abs(total),
                     axis |-> IF total < 0 THEN VNeg(AxisVec(ax)) ELSE AxisVec(ax)]

\* AngleAxisf as a matrix again.
AngleAxisMatrix(aa) ==
  IF aa.angle = NaN \/ IsNaNVec(aa.axis) THEN BadRot
  ELSE LET k == CHOOSE n \in 1..3 : aa.axis[n] # 0
       IN  MkRot(Identity3, k, aa.axis[k] * aa.angle)

\* Lines 302-320: the forward axis our_z (in units of 1/len) and the twist
\* about it, as angle and axis.
swing_twist(rot) ==
  LET our_z == RotApply(rot, VNeg(UnitZ))
      simple == setFromTwoVectors(VNeg(UnitZ), our_z)
      twist == RotMul(rot, RotInv(simple))
  IN  [our_z |-> our_z, len |-> 1, twist |-> AngleAxisOf(twist)]

\* The cap with >= in place of >.
clamp_twist_or_equal(angle, max_swing_angle) ==
  IF angle = NaN THEN NaN
  ELSE IF Abs(angle) >= max_swing_angle
    THEN IF angle = 0 THEN NaN ELSE max_swing_angle * (angle \div Abs(angle))
  ELSE angle

\* Lines 334-342: the twist angle capped at max_swing_angle.
clamp_twist(angle, max_swing_angle) ==
  IF angle = NaN THEN NaN
  ELSE IF Abs(angle) > max_swing_angle
    THEN IF angle = 0 THEN NaN ELSE max_swing_angle * (angle \div Abs(angle))
  ELSE angle

\* Lines 345-349: the forward axis kept out of the back hemisphere.  The
\* result is the z component, as a fraction, that line 350 divides by.
hemisphere_guard(our_z, len) ==
  IF our_z[3] > 0 THEN [n |-> -1, d |-> EpsInv] ELSE [n |-> our_z[3], d |-> len]

\* Line 350: our_z *= -1.0f / our_z.z().  The x and y components after it
\* (the tangents), as fractions; dividing by zero leaves no number.
tangents(our_z, len, z) ==
  IF IsNaNVec(our_z) \/ z.n = 0 THEN [nan |-> TRUE, x |-> [n |-> 0, d |-> 1], y |-> [n |-> 0, d |-> 1]]
  ELSE IF z.d = EpsInv
    THEN [nan |-> FALSE, x |-> [n |-> our_z[1] * EpsInv, d |-> len],
                         y |-> [n |-> our_z[2] * EpsInv, d |-> len]]
  ELSE [nan |-> FALSE, x |-> [n |-> our_z[1], d |-> -z.n], y |-> [n |-> our_z[2], d |-> -z.n]]

\* clamp_proximals on the swing/twist form st = [our_z, len, twist].
clamp_proximals_st(st, max_swing_angle, tanangle_left, tanangle_right, tanangle_curled, tanangle_uncurled) ==
  LET z == hemisphere_guard(st.our_z, st.len)
      t == tangents(st.our_z, st.len, z)
  IN  [twist |-> [angle |-> clamp_twist(st.twist.angle, max_swing_angle),
                  axis |-> st.twist.axis],
       z |-> z,
       nan |-> t.nan,
       x |-> clamp(t.x, tanangle_left, tanangle_right),
       y |-> clamp(t.y, tanangle_curled, tanangle_uncurled)]

\* Lines 356-358: twist_aax * simple, with simple the shortest arc from -Z
\* to the clamped forward axis.
recompose(c) ==
  IF c.nan THEN BadRot
  ELSE LET dir == <<c.x.n * c.y.d, c.y.n * c.x.d, -(c.x.d * c.y.d)>>
           simple == setFromTwoVectors(VNeg(UnitZ), normalized(dir))
       IN  RotMul(AngleAxisMatrix(c.twist), simple)

clamp_proximals_rot(rot, max_swing_angle, tanangle_left, tanangle_right, tanangle_curled, tanangle_uncurled) ==
  recompose(clamp_proximals_st(swing_twist(rot), max_swing_angle, tanangle_left,
                               tanangle_right, tanangle_curled, tanangle_uncurled))

clamp_proximals(h, f, bone_idx, max_swing_angle, tanangle_left, tanangle_right, tanangle_curled, tanangle_uncurled) ==
  [h EXCEPT !.bone_relation[f][bone_idx].lin =
              clamp_proximals_rot(@, max_swing_angle, tanangle_left, tanangle_right,
                                  tanangle_curled, tanangle_uncurled),
            !.written = TRUE]

(***************************************************************************)
(* The statements of optimize() and do_it_for_finger(), by source line.    *)
(***************************************************************************)
Stmt(fn, finger, bone, args) == [fn |-> fn, finger |-> finger, bone |-> bone, args |-> args]

NumIterations == 15

\* do_it_for_finger with the hinge limit on bone 1 and no recompute after it.
do_it_for_finger_hinge_on_1(line, f) ==
  CASE line = 366 -> Stmt("do_it_for_bone", f, 0, <<>>)
    [] line = 367 -> Stmt("clamp_proximals", f, 0,
                          <<4, tan_rad(-30), tan_rad(30), tan_rad(-10), tan_rad(10)>>)
    [] line = 368 -> Stmt("_statics_init_world_poses", f, 0, <<>>)
    [] line = 370 -> Stmt("do_it_for_bone", f, 1, <<>>)
    [] line = 371 -> Stmt("clamp_to_x_axis", f, 1, <<-90, 10>>)
    [] line = 372 -> Stmt("clamp_to_x_axis", f, 1, <<-90, 10>>)
    [] line = 375 -> Stmt("do_it_for_bone", f, 2, <<>>)
    [] line = 376 -> Stmt("clamp_to_x_axis", f, 2, <<-90, 10>>)
    [] line = 377 -> Stmt("_statics_init_world_poses", f, 2, <<>>)
    [] line = 379 -> Stmt("do_it_for_bone", f, 3, <<>>)
    [] line = 380 -> Stmt("clamp_to_x_axis", f, 3, <<-90, 10>>)
    [] line = 381 -> Stmt("_statics_init_world_poses", f, 3, <<>>)
    [] line = 382 -> Stmt("return", f, 0, <<>>)

\* do_it_for_finger(hand, finger_idx), lines 366-381.
do_it_for_finger_body(line, f) ==
  CASE line = 366 -> Stmt("do_it_for_bone", f, 0, <<>>)
    [] line = 367 -> Stmt("clamp_proximals", f, 0,
                          <<4, tan_rad(-30), tan_rad(30), tan_rad(-10), tan_rad(10)>>)
    [] line = 368 -> Stmt("_statics_init_world_poses", f, 0, <<>>)
    [] line = 370 -> Stmt("do_it_for_bone", f, 1, <<>>)
    [] line = 371 -> Stmt("clamp_proximals", f, 1,
                          <<4, tan_rad(-20), tan_rad(20), tan_rad(-89), tan_rad(30)>>)
    [] line = 372 -> Stmt("_statics_init_world_poses", f, 1, <<>>)
    [] line = 375 -> Stmt("do_it_for_bone", f, 2, <<>>)
    [] line = 376 -> Stmt("clamp_to_x_axis", f, 2, <<-90, 10>>)
    [] line = 377 -> Stmt("_statics_init_world_poses", f, 2, <<>>)
    [] line = 379 -> Stmt("do_it_for_bone", f, 3, <<>>)
    [] line = 380 -> Stmt("clamp_to_x_axis", f, 3, <<-90, 10>>)
    [] line = 381 -> Stmt("_statics_init_world_poses", f, 3, <<>>)
    [] line = 382 -> Stmt("return", f, 0, <<>>)

\* optimize without the second alignment of an iteration.
optimize_one_alignment(line) ==
  CASE line = 387 -> Stmt("for", 0, 0, <<>>)
    [] line = 388 -> Stmt("two", 0, 0, <<>>)
    [] line = 389 -> Stmt("do_it_for_bone", 0, 1, <<>>)
    [] line = 390 -> Stmt("clamp_proximals", 0, 1,
                          <<70, tan_rad(-40), tan_rad(40), tan_rad(-40), tan_rad(40)>>)
    [] line = 391 -> Stmt("_statics_init_world_poses", 0, 1, <<>>)
    [] line = 393 -> Stmt("do_it_for_bone", 0, 2, <<>>)
    [] line = 394 -> Stmt("clamp_to_x_axis", 0, 2, <<-90, 40>>)
    [] line = 395 -> Stmt("_statics_init_world_poses", 0, 2, <<>>)
    [] line = 397 -> Stmt("do_it_for_bone", 0, 3, <<>>)
    [] line = 398 -> Stmt("clamp_to_x_axis", 0, 3, <<-90, 40>>)
    [] line = 399 -> Stmt("_statics_init_world_poses", 0, 3, <<>>)
    [] line = 401 -> Stmt("_statics_init_world_poses", 0, 3, <<>>)
    [] line = 403 -> Stmt("do_it_for_finger", 1, 0, <<>>)
    [] line = 404 -> Stmt("do_it_for_finger", 2, 0, <<>>)
    [] line = 405 -> Stmt("do_it_for_finger", 3, 0, <<>>)
    [] line = 406 -> Stmt("do_it_for_finger", 4, 0, <<>>)
    [] line = 407 -> Stmt("i++", 0, 0, <<>>)
    [] line = 408 -> Stmt("two", 0, 0, <<>>)
    [] line = 409 -> Stmt("return", 0, 0, <<>>)

\* optimize(hand), lines 387-409.
optimize_body(line) ==
  CASE line = 387 -> Stmt("for", 0, 0, <<>>)
    [] line = 388 -> Stmt("two", 0, 0, <<>>)
    [] line = 389 -> Stmt("do_it_for_bone", 0, 1, <<>>)
    [] line = 390 -> Stmt("clamp_proximals", 0, 1,
                          <<70, tan_rad(-40), tan_rad(40), tan_rad(-40), tan_rad(40)>>)
    [] line = 391 -> Stmt("_statics_init_world_poses", 0, 1, <<>>)
    [] line = 393 -> Stmt("do_it_for_bone", 0, 2, <<>>)
    [] line = 394 -> Stmt("clamp_to_x_axis", 0, 2, <<-90, 40>>)
    [] line = 395 -> Stmt("_statics_init_world_poses", 0, 2, <<>>)
    [] line = 397 -> Stmt("do_it_for_bone", 0, 3, <<>>)
    [] line = 398 -> Stmt("clamp_to_x_axis", 0, 3, <<-90, 40>>)
    [] line = 399 -> Stmt("_statics_init_world_poses", 0, 3, <<>>)
    [] line = 401 -> Stmt("two", 0, 0, <<>>)
    [] line = 403 -> Stmt("do_it_for_finger", 1, 0, <<>>)
    [] line = 404 -> Stmt("do_it_for_finger", 2, 0, <<>>)
    [] line = 405 -> Stmt("do_it_for_finger", 3, 0, <<>>)
    [] line = 406 -> Stmt("do_it_for_finger", 4, 0, <<>>)
    [] line = 407 -> Stmt("i++", 0, 0, <<>>)
    [] line = 408 -> Stmt("two", 0, 0, <<>>)
    [] line = 409 -> Stmt("return", 0, 0, <<>>)

FingerLines == <<366, 367, 368, 370, 371, 372, 375, 376, 377, 379, 380, 381, 382>>

OptimizeLines == <<387, 388, 389, 390, 391, 393, 394, 395, 397, 398, 399, 401,
                   403, 404, 405, 406, 407, 408, 409>>

InFinger(line) == \E n \in 1..Len(FingerLines) : FingerLines[n] = line

InOptimize(line) == \E n \in 1..Len(OptimizeLines) : OptimizeLines[n] = line

\* The statement after line, in the same function body.
LineAfter(line) ==
  LET body == IF InFinger(line) THEN FingerLines ELSE OptimizeLines
      n == CHOOSE k \in 1..Len(body) : body[k] = line
  IN  body[n + 1]

\* The statement the program is at; outside both bodies, optimize_new_frame.
Current ==
  IF InFinger(pc) THEN do_it_for_finger_body(pc, finger_idx)
  ELSE IF InOptimize(pc) THEN optimize_body(pc)
  ELSE Stmt("optimize_new_frame", 0, 0, <<>>)

(***************************************************************************)
(* optimize_new_frame(): intake and outtake.                               *)
(***************************************************************************)
XRT_HAND_JOINT_PALM == 0

XRT_HAND_JOINT_WRIST == 1

XRT_HAND_JOINT_THUMB_METACARPAL == 2

MirrorX(v) == IF IsNaNVec(v) THEN NaNVec ELSE <<-v[1], v[2], v[3]>>

\* The intake with x copied unchanged for either hand.
intake_unmirrored(h, model_joints_3d, idx) ==
  LET t == [k \in 0..20 |-> model_joints_3d[k]]
  IN  [h EXCEPT !.t_jts = t, !.t_jts_as_mat = [k \in 0..20 |-> t[k]]]

\* The intake with the matrix columns filled from the input points.
intake_columns_from_input(h, model_joints_3d, idx) ==
  LET t == [k \in 0..20 |-> IF idx = 0 THEN model_joints_3d[k]
                            ELSE <<-model_joints_3d[k][1], model_joints_3d[k][2],
                                   model_joints_3d[k][3]>>]
  IN  [h EXCEPT !.t_jts = t, !.t_jts_as_mat = [k \in 0..20 |-> model_joints_3d[k]]]

\* Lines 482-494: the target points, mirrored for the right hand.
intake(h, model_joints_3d, idx) ==
  LET t == [k \in 0..20 |-> IF idx = 0 THEN model_joints_3d[k]
                            ELSE <<-model_joints_3d[k][1], model_joints_3d[k][2],
                                   model_joints_3d[k][3]>>]
  IN  [h EXCEPT !.t_jts = t, !.t_jts_as_mat = [k \in 0..20 |-> t[k]]]

AllFlags == {"ORIENTATION_VALID", "ORIENTATION_TRACKED", "POSITION_VALID", "POSITION_TRACKED"}

make_joint_at_matrix_left_hand(pose) ==
  [relation_flags |-> AllFlags, position |-> pose.t, orientation |-> pose.lin]

\* mirror_on_x * rotation, then column 0 negated.
mirror_rotation(r) ==
  IF ~r.ok THEN BadRot
  ELSE LET m == <<VNeg(UnitX), UnitY, UnitZ>>
       IN  MkRot(MatMul(MatMul(m, r.g), m), r.ax, IF r.ax = 1 THEN r.ang ELSE -r.ang)

make_joint_at_matrix_right_hand(pose) ==
  [relation_flags |-> AllFlags, position |-> MirrorX(pose.t),
   orientation |-> mirror_rotation(pose.lin)]

\* The writer with the flags left unset for a pose that is not a number.
make_joint_at_matrix_checked(pose, idx) ==
  LET j == IF idx = 0 THEN make_joint_at_matrix_left_hand(pose)
           ELSE make_joint_at_matrix_right_hand(pose)
  IN  IF IsNaNVec(pose.t) \/ ~pose.lin.ok THEN [j EXCEPT !.relation_flags = {}] ELSE j

make_joint_at_matrix(pose, idx) ==
  IF idx = 0 THEN make_joint_at_matrix_left_hand(pose)
  ELSE make_joint_at_matrix_right_hand(pose)

\* CONTINUE_IF_HIDDEN_THUMB: the thumb's bone 0 is not a joint of the output.
hidden_thumb(f, b) == f = 0 /\ b = 0

\* The outtake loop with the thumb's bone 0 emitted like any other bone.
EmittedBonesWithHiddenThumb == [n \in 1..25 |-> <<(n - 1) \div 5, (n - 1) % 5>>]

\* The bones the outtake loop emits, in loop order.
EmittedBones ==
  LET all == [n \in 1..25 |-> <<(n - 1) \div 5, (n - 1) % 5>>]
  IN  SelectSeq(all, LAMBDA fb : ~hidden_thumb(fb[1], fb[2]) /\ ~(fb[1] = 0 /\ fb[2] = 0))

\* Lines 501-525: the joint entries written to out_set.
outtake(h, idx) ==
  LET palm_relation ==
        Affine(h.world_pose[2][0].lin,
               VAdd(VDivide(h.world_pose[2][0].t, 2), VDivide(h.world_pose[2][1].t, 2)))
      start == XRT_HAND_JOINT_THUMB_METACARPAL
  IN  [j \in 0..(start + Len(EmittedBones) - 1) |->
         IF j = XRT_HAND_JOINT_WRIST THEN make_joint_at_matrix(h.wrist_relation, idx)
         ELSE IF j = XRT_HAND_JOINT_PALM THEN make_joint_at_matrix(palm_relation, idx)
         ELSE LET fb == EmittedBones[j - start + 1]
              IN  make_joint_at_matrix(h.world_pose[fb[1]][fb[2]], idx)]

\* Lines 501-525 as the calls of make_joint_at_matrix in program order: the
\* index each one writes (start++ for the bones) and the pose it is given.
outtake_writes ==
  LET start == XRT_HAND_JOINT_THUMB_METACARPAL
  IN  <<[index |-> XRT_HAND_JOINT_WRIST, pose |-> "wrist_relation", finger |-> -1, bone |-> -1],
        [index |-> XRT_HAND_JOINT_PALM, pose |-> "palm_relation", finger |-> -1, bone |-> -1]>>
      \o [n \in 1..Len(EmittedBones) |->
            [index |-> start + n - 1, pose |-> "world_pose",
             finger |-> EmittedBones[n][1], bone |-> EmittedBones[n][2]]]

(***************************************************************************)
(* qwerty_process_event(): SDL events to the qwerty devices.               *)
(***************************************************************************)
QwertyDevices == {"hmd", "left", "right"}

\* The input a key presses and releases (lines 124-145, 153-154).
KeyInput ==
  [SDLK_a |-> "left", SDLK_d |-> "right", SDLK_w |-> "forward", SDLK_s |-> "backward",
   SDLK_e |-> "up", SDLK_q |-> "down", SDLK_LEFT |-> "look_left",
   SDLK_RIGHT |-> "look_right", SDLK_UP |-> "look_up", SDLK_DOWN |-> "look_down",
   SDLK_LSHIFT |-> "sprint"]

\* The keys of the events the model sends: the two focus keys, one key each
\* for movement, look and sprint, a speed key and a key the handler ignores.
EventKeys == {"SDLK_LCTRL", "SDLK_LALT", "SDLK_a", "SDLK_w", "SDLK_LEFT", "SDLK_LSHIFT",
              "SDLK_KP_PLUS", "SDLK_KP_MINUS", "SDLK_x"}

Events ==
  {[type |-> t, sym |-> k, rmask |-> FALSE] : t \in {"SDL_KEYDOWN", "SDL_KEYUP"}, k \in EventKeys}
  \cup {[type |-> "SDL_MOUSEWHEEL", sym |-> "none", rmask |-> FALSE],
        [type |-> "SDL_MOUSEBUTTONUP", sym |-> "none", rmask |-> FALSE]}
  \cup {[type |-> "SDL_MOUSEMOTION", sym |-> "none", rmask |-> b] : b \in BOOLEAN}

\* The device list of a call: whether it holds a qwerty HMD, and whether the
\* devices given the head, left and right roles are the qwerty ones.  The
\* two qwerty controllers are always in the list.
Xdevs ==
  {x \in [hmd : BOOLEAN, head : {"hmd", "other"}, left : {"left", "other"},
          right : {"right", "other"}] : x.head = "hmd" => x.hmd}

\* Lines 52-63.
default_qwerty_device(x) ==
  IF x.head = "hmd" THEN "hmd"
  ELSE IF x.right = "right" THEN "right"
  ELSE IF x.left = "left" THEN "left"
  ELSE "right"

\* qwerty_release_all(qd): every input of the device released.
qwerty_release_all(pressed) == {}

\* The focus with ALT tested before CTRL.
focused_device_alt_first(ctrl_pressed, alt_pressed, default_qdev) ==
  IF alt_pressed THEN "right" ELSE IF ctrl_pressed THEN "left" ELSE default_qdev

\* Lines 118-121.
focused_device(ctrl_pressed, alt_pressed, default_qdev) ==
  IF ctrl_pressed THEN "left" ELSE IF alt_pressed THEN "right" ELSE default_qdev

\* The release of the two controllers only.
release_controllers(inputs, change_focus, using_qhmd) ==
  [d \in QwertyDevices |->
     IF change_focus /\ d # "hmd" THEN qwerty_release_all(inputs[d]) ELSE inputs[d]]

\* Lines 111-115.
release_on_change_focus(inputs, change_focus, using_qhmd) ==
  [d \in QwertyDevices |->
     IF change_focus /\ (d # "hmd" \/ using_qhmd) THEN qwerty_release_all(inputs[d])
     ELSE inputs[d]]

\* Lines 111-115 as calls.
release_calls(change_focus, using_qhmd) ==
  IF ~change_focus THEN <<>>
  ELSE (IF using_qhmd THEN <<[fn |-> "qwerty_release_all", dev |-> "hmd"]>> ELSE <<>>)
       \o <<[fn |-> "qwerty_release_all", dev |-> "right"],
            [fn |-> "qwerty_release_all", dev |-> "left"]>>

\* Lines 123-165: the call the event makes on the focused device, if any.
event_calls(event, qdev) ==
  IF event.type \in {"SDL_KEYDOWN", "SDL_KEYUP"} /\ event.sym \in DOMAIN KeyInput
    THEN <<[fn |-> (IF event.type = "SDL_KEYDOWN" THEN "qwerty_press_" ELSE "qwerty_release_")
                   \o KeyInput[event.sym],
            dev |-> qdev]>>
  ELSE IF event.type = "SDL_MOUSEWHEEL"
          \/ (event.type = "SDL_KEYDOWN" /\ event.sym \in {"SDLK_KP_PLUS", "SDLK_KP_MINUS"})
    THEN <<[fn |-> "qwerty_change_movement_speed", dev |-> qdev]>>
  ELSE IF event.type = "SDL_MOUSEMOTION" /\ event.rmask
    THEN <<[fn |-> "qwerty_add_look_delta", dev |-> qdev]>>
  ELSE <<>>

\* Lines 124-145, 153-154 on the pressed inputs of the focused device.
event_input(event, pressed) ==
  IF event.sym \notin DOMAIN KeyInput THEN pressed
  ELSE IF event.type = "SDL_KEYDOWN" THEN pressed \cup {KeyInput[event.sym]}
  ELSE IF event.type = "SDL_KEYUP" THEN pressed \ {KeyInput[event.sym]}
  ELSE pressed

\* The statics of qwerty_process_event before the first call (lines 69-80),
\* the pressed inputs of the three devices, and what the last call did: its
\* event, the device it focused, the calls it made in order, the inputs
\* before it and at the time it determined the focus.  held is the set of
\* focus keys down by the events so far, first the default device of the
\* first call's device list.
QwertyStart ==
  [cached |-> FALSE, xd_hmd |-> FALSE, default_qdev |-> "none",
   alt_pressed |-> FALSE, ctrl_pressed |-> FALSE,
   inputs |-> [d \in QwertyDevices |-> {}],
   event |-> [type |-> "none", sym |-> "none", rmask |-> FALSE],
   qdev |-> "none", calls |-> <<>>, held |-> {}, first |-> "none",
   before |-> [d \in QwertyDevices |-> {}], at_focus |-> [d \in QwertyDevices |-> {}]]

\* Lines 66-167.
qwerty_process_event(q, xdevs, event) ==
  LET xd_hmd == IF q.cached THEN q.xd_hmd ELSE xdevs.hmd
      default_qdev == IF q.cached THEN q.default_qdev ELSE default_qwerty_device(xdevs)
      using_qhmd == xd_hmd
      alt_down == event.type = "SDL_KEYDOWN" /\ event.sym = "SDLK_LALT"
      alt_up == event.type = "SDL_KEYUP" /\ event.sym = "SDLK_LALT"
      ctrl_down == event.type = "SDL_KEYDOWN" /\ event.sym = "SDLK_LCTRL"
      ctrl_up == event.type = "SDL_KEYUP" /\ event.sym = "SDLK_LCTRL"
      alt_pressed == IF alt_up THEN FALSE ELSE IF alt_down THEN TRUE ELSE q.alt_pressed
      ctrl_pressed == IF ctrl_up THEN FALSE ELSE IF ctrl_down THEN TRUE ELSE q.ctrl_pressed
      change_focus == alt_down \/ alt_up \/ ctrl_down \/ ctrl_up
      released == release_on_change_focus(q.inputs, change_focus, using_qhmd)
      qdev == focused_device(ctrl_pressed, alt_pressed, default_qdev)
      held == IF event.type = "SDL_KEYDOWN" /\ event.sym \in {"SDLK_LCTRL", "SDLK_LALT"}
                THEN q.held \cup {event.sym}
              ELSE IF event.type = "SDL_KEYUP" THEN q.held \ {event.sym}
              ELSE q.held
  IN  [cached |-> TRUE, xd_hmd |-> xd_hmd, default_qdev |-> default_qdev,
       alt_pressed |-> alt_pressed, ctrl_pressed |-> ctrl_pressed,
       inputs |-> [released EXCEPT ![qdev] = event_input(event, @)],
       event |-> event, qdev |-> qdev,
       calls |-> release_calls(change_focus, using_qhmd) \o event_calls(event, qdev),
       held |-> held,
       first |-> IF q.cached THEN q.first ELSE default_qwerty_device(xdevs),
       before |-> q.inputs, at_focus |-> released]

(***************************************************************************)
(* The variable tree of the debug window (unnamed/part_000).  u_var_visit   *)
(* calls on_root_enter for a root, on_elem for each of its elements in      *)
(* order and on_root_exit, all on one draw_state (line 675).  The headers   *)
(* decide what is drawn through vis_stack and vis_i.  A build with asserts  *)
(* stops at a failed assert, a build with NDEBUG has no asserts.  An access *)
(* to vis_stack outside the array is undefined behaviour: the model records *)
(* the index and says nothing about the program after it.                   *)
(***************************************************************************)

\* Line 82 has 256.  The model keeps the array short enough to fill; the
\* code uses the value only as the array's length and in the assert of
\* line 569.
MAX_HEADER_NESTING == 3

\* The most elements of one root the model visits.
MaxElems == 6

\* The three header kinds and one of the kinds that draw a single widget
\* (lines 579-620: all of them draw and leave the draw_state alone).
Kinds == {"GUI_HEADER_BEGIN", "GUI_HEADER_END", "GUI_HEADER", "BOOL"}

VisSlots == 0..(MAX_HEADER_NESTING - 1)

\* What the last call did: whether it drew its element, whether it called
\* igIndent or igUnindent, the headers that enclosed the element (outermost
\* first, each "open", "collapsed" or "hidden" as its GUI_HEADER_BEGIN was
\* drawn), and for a GUI_HEADER_END the header it closes.
NoElem ==
  [kind |-> "none", drawn |-> FALSE, indent |-> FALSE, unindent |-> FALSE,
   enclosing |-> <<>>, header |-> "none"]

\* Line 675, before the first root.  access holds the vis_stack indices used
\* since on_root_enter, indent the igIndent calls less the igUnindent calls,
\* open the headers begun and not ended, orphan whether a GUI_HEADER_END
\* came with no header begun, mixed whether a GUI_HEADER came inside one,
\* at_exit the vis_i that on_root_exit found.
GuiStart ==
  [ndebug |-> FALSE, phase |-> "idle", vis_stack |-> [k \in VisSlots |-> FALSE],
   vis_i |-> 0, access |-> {}, indent |-> 0, open |-> <<>>, orphan |-> FALSE,
   mixed |-> FALSE, elems |-> 0, at_exit |-> 0, last |-> NoElem]

\* Lines 532-540.
on_root_enter(g) ==
  [g EXCEPT !.phase = "root", !.vis_i = 0, !.vis_stack[0] = TRUE,
            !.access = {0}, !.indent = 0, !.open = <<>>, !.orphan = FALSE,
            !.mixed = FALSE, !.elems = 0, !.at_exit = 0,
            !.last = [NoElem EXCEPT !.kind = "root_enter"]]

\* An access to vis_stack[idx] with idx outside the array.
out_of_bounds(g, idx, call) ==
  [g EXCEPT !.phase = "undefined", !.access = @ \cup {idx}, !.last = call]

\* A failed assert in a build that has them.
aborted(g, call) == [g EXCEPT !.phase = "aborted", !.last = call]

\* Lines 507-513, called from line 563 with the state as line 551 left it.
on_gui_header(g, is_open, call) ==
  LET drawn == [call EXCEPT !.drawn = TRUE]
  IN IF g.vis_i # 0 /\ ~g.ndebug THEN aborted(g, call)
     ELSE [g EXCEPT !.vis_stack[g.vis_i] = is_open, !.access = @ \cup {g.vis_i},
                    !.mixed = @ \/ g.open # <<>>, !.last = drawn]

\* Lines 515-522.
on_gui_header_begin(g, is_open, call) ==
  [g EXCEPT !.vis_stack[g.vis_i] = is_open, !.access = @ \cup {g.vis_i},
            !.indent = IF is_open THEN @ + 1 ELSE @,
            !.last = [call EXCEPT !.drawn = TRUE, !.indent = is_open]]

\* Lines 525-530.
on_gui_header_end(g, call) ==
  [g EXCEPT !.indent = @ - 1, !.last = [call EXCEPT !.drawn = TRUE, !.unindent = TRUE]]

\* Lines 569-621: the assert, the return of an element that is not visible,
\* and the widget of the kind.
draw_elem(g, kind, visible, is_open, call) ==
  IF g.vis_i \notin VisSlots /\ ~g.ndebug THEN aborted(g, call)
  ELSE IF ~visible THEN [g EXCEPT !.last = call]
  ELSE IF kind = "GUI_HEADER_BEGIN" THEN on_gui_header_begin(g, is_open, call)
  ELSE IF kind = "GUI_HEADER_END" THEN on_gui_header_end(g, call)
  ELSE [g EXCEPT !.last = [call EXCEPT !.drawn = TRUE]]

\* The headers begun and not ended after an element of the kind.
open_after(g, kind, visible, is_open) ==
  IF kind = "GUI_HEADER_BEGIN"
  THEN Append(g.open, IF ~visible THEN "hidden" ELSE IF is_open THEN "open" ELSE "collapsed")
  ELSE IF kind = "GUI_HEADER_END" /\ g.open # <<>> THEN SubSeq(g.open, 1, Len(g.open) - 1)
  ELSE g.open

\* Lines 542-622.  is_open is what igCollapsingHeaderBoolPtr returns if the
\* element is a header that gets drawn.
on_elem(g, kind, is_open) ==
  LET call == [NoElem EXCEPT !.kind = kind, !.enclosing = g.open,
                 !.header = IF kind = "GUI_HEADER_END" /\ g.open # <<>>
                            THEN g.open[Len(g.open)] ELSE "none"]
      n == [g EXCEPT !.elems = @ + 1]
  IN IF g.vis_i \notin VisSlots THEN out_of_bounds(n, g.vis_i, call)
     ELSE LET visible == g.vis_stack[g.vis_i]
              read == [n EXCEPT !.access = @ \cup {g.vis_i},
                                !.open = open_after(g, kind, visible, is_open),
                                !.orphan = @ \/ (kind = "GUI_HEADER_END" /\ g.open = <<>>)]
          IN CASE kind = "GUI_HEADER_BEGIN" ->
                    IF g.vis_i + 1 \notin VisSlots
                    THEN out_of_bounds(read, g.vis_i + 1, call)
                    ELSE draw_elem([read EXCEPT !.vis_i = g.vis_i + 1,
                                                !.vis_stack[g.vis_i + 1] = visible,
                                                !.access = @ \cup {g.vis_i + 1}],
                                   kind, visible, is_open, call)
               [] kind = "GUI_HEADER_END" ->
                    draw_elem([read EXCEPT !.vis_i = g.vis_i - 1], kind, visible, is_open, call)
               [] kind = "GUI_HEADER" -> on_gui_header(read, is_open, call)
               [] OTHER -> draw_elem(read, kind, visible, is_open, call)

\* Lines 624-633.
on_root_exit(g) ==
  LET call == [NoElem EXCEPT !.kind = "root_exit", !.enclosing = g.open]
      found == [g EXCEPT !.at_exit = g.vis_i]
  IN IF g.vis_i # 0 /\ ~g.ndebug THEN aborted(found, call)
     ELSE [found EXCEPT !.phase = "exited", !.vis_i = 0, !.vis_stack[0] = FALSE,
                        !.access = @ \cup {0}, !.last = call]

(***************************************************************************)
(* The instance of the target (unnamed/part_001).  Each function runs one  *)
(* source line at a time; at is the line to run next.  A pointer is "NULL", *)
(* "stale" (something not NULL the caller left in an output) or the name of *)
(* the object a callee made.  written lists the outputs assigned so far.    *)
(***************************************************************************)

\* What u_system_devices_create_from_prober may return (line 41).
CreateResults ==
  {"XRT_SUCCESS", "XRT_ERROR_ALLOCATION", "XRT_ERROR_PROBING_FAILED",
   "XRT_ERROR_DEVICE_CREATION_FAILED"}

CallerPointers == {"NULL", "stale"}

InstStart == [phase |-> "idle"]

\* Lines 18-29: the call with its arguments as the caller set them up.
\* out_xsysc is "absent" for a NULL pointer, else what it points to.
create_system_call(ndebug, out_xsysd, out_xso, out_xsysc) ==
  [phase |-> "running", fn |-> "t_instance_create_system", at |-> 30,
   ndebug |-> ndebug, out_xsysc |-> out_xsysc,
   out_xsysd |-> out_xsysd, out_xso |-> out_xso, out_xinst |-> "NULL",
   given |-> <<out_xsysd, out_xso>>, xsysd |-> "NULL", xso |-> "NULL",
   xret |-> "XRT_SUCCESS", created |-> FALSE, written |-> {}, ret |-> "none"]

\* A return statement.
returns(c, code) == [c EXCEPT !.phase = "returned", !.ret = code]

\* Lines 30-34.
create_system_asserts(c) ==
  IF ~c.ndebug /\ (c.out_xsysd # "NULL" \/ c.out_xso # "NULL" \/ c.out_xsysc = "stale")
  THEN [c EXCEPT !.phase = "aborted"]
  ELSE [c EXCEPT !.at = 37]

\* Lines 42-44 without the return.
create_system_ignoring_xret(c) == [c EXCEPT !.at = 46]

\* Lines 42-44.
create_system_after_prober(c) ==
  IF c.xret # "XRT_SUCCESS" THEN returns(c, c.xret) ELSE [c EXCEPT !.at = 46]

\* Lines 30-49, one line.  result, xsysd and xso are what
\* u_system_devices_create_from_prober returns and leaves in the locals.
t_instance_create_system(c, result, xsysd, xso) ==
  CASE c.at = 30 -> create_system_asserts(c)
    [] c.at = 37 -> IF c.out_xsysc # "absent" THEN returns(c, "XRT_ERROR_ALLOCATION")
                    ELSE [c EXCEPT !.at = 41]
    [] c.at = 41 -> [c EXCEPT !.at = 42, !.xret = result, !.xsysd = xsysd,
                              !.xso = xso, !.created = TRUE]
    [] c.at = 42 -> create_system_after_prober(c)
    [] c.at = 46 -> [c EXCEPT !.at = 47, !.out_xsysd = c.xsysd, !.written = @ \cup {"out_xsysd"}]
    [] c.at = 47 -> [c EXCEPT !.at = 49, !.out_xso = c.xso, !.written = @ \cup {"out_xso"}]
    [] c.at = 49 -> returns(c, c.xret)

\* Lines 59-65.
instance_create_call(out_xinst) ==
  [phase |-> "running", fn |-> "xrt_instance_create", at |-> 66,
   ndebug |-> FALSE, out_xsysc |-> "absent",
   out_xsysd |-> "NULL", out_xso |-> "NULL", out_xinst |-> out_xinst,
   given |-> <<out_xinst>>, xsysd |-> "NULL", xso |-> "NULL",
   xret |-> 0, created |-> FALSE, written |-> {}, ret |-> "none"]

\* Lines 66-79, one line.  ret is what xrt_prober_create_with_lists
\* returns, tinst what calloc returns.  Line 72 writes through tinst: with a
\* NULL tinst that is undefined behaviour, and the model stops there.
xrt_instance_create(c, ret, tinst) ==
  CASE c.at = 66 -> [c EXCEPT !.at = 67, !.xret = ret]
    [] c.at = 67 -> IF c.xret < 0 THEN returns(c, "XRT_ERROR_PROBER_CREATION_FAILED")
                    ELSE [c EXCEPT !.at = 71]
    [] c.at = 71 -> [c EXCEPT !.at = 72, !.xsysd = tinst]
    [] c.at = 72 -> IF c.xsysd = "NULL" THEN [c EXCEPT !.phase = "undefined"]
                    ELSE [c EXCEPT !.at = 77, !.created = TRUE]
    [] c.at = 77 -> [c EXCEPT !.at = 79, !.out_xinst = c.xsysd, !.written = @ \cup {"out_xinst"}]
    [] c.at = 79 -> returns(c, "XRT_SUCCESS")

(***************************************************************************)
(* default_qwerty_device with the device list as an array (qwerty_sdl.c,   *)
(* lines 18-64).  xdevs is a sequence; the C index k is position k + 1.  A  *)
(* device is named by its kind: the three qwerty devices have the strings   *)
(* that find_qwerty_devices compares, the others are devices of other       *)
(* drivers, "NULL" is an empty slot.  Reading xdevs outside the list is     *)
(* undefined behaviour: the model records the index and stops.              *)
(***************************************************************************)

\* The longest device list of the model.
MaxXdevs == 3

\* The value line 49 gives the roles; xrt_device.h defines it.
XRT_DEVICE_ROLE_UNASSIGNED == -1

RoleDevices ==
  {"qwerty_hmd", "qwerty_left", "qwerty_right", "other_hmd", "other_left", "other_right"}

DeviceType ==
  [d \in RoleDevices |->
     IF d \in {"qwerty_hmd", "other_hmd"} THEN "hmd"
     ELSE IF d \in {"qwerty_left", "other_left"} THEN "left" ELSE "right"]

\* Device lists: every device at most once, empty slots anywhere.
XdevLists ==
  {l \in UNION {[1..n -> RoleDevices \cup {"NULL"}] : n \in 1..MaxXdevs} :
     \A a, b \in DOMAIN l : (a # b /\ l[a] = l[b]) => l[a] = "NULL"}

\* Lines 18-38: the last slot holding the device with the string, or NULL.
find_qwerty_devices(xdevs, name) ==
  IF \E k \in DOMAIN xdevs : xdevs[k] = name THEN name ELSE "NULL"

\* u_device_assign_xdev_roles (line 50; not in qwerty_sdl.c): a role gets
\* the C index of the first device of its type and is left alone when the
\* list has none.
u_device_assign_xdev_roles(xdevs, type) ==
  LET of_type == {k \in DOMAIN xdevs : xdevs[k] # "NULL" /\ DeviceType[xdevs[k]] = type}
  IN IF of_type = {} THEN XRT_DEVICE_ROLE_UNASSIGNED
     ELSE (CHOOSE k \in of_type : \A m \in of_type : k <= m) - 1

RolesStart == [phase |-> "idle"]

\* Lines 41-50 and the caller's lines 82-83.
default_qwerty_device_call(xdevs) ==
  [phase |-> "running", at |-> 53, xdevs |-> xdevs,
   xd_hmd |-> find_qwerty_devices(xdevs, "qwerty_hmd"),
   xd_left |-> find_qwerty_devices(xdevs, "qwerty_left"),
   xd_right |-> find_qwerty_devices(xdevs, "qwerty_right"),
   head |-> u_device_assign_xdev_roles(xdevs, "hmd"),
   left |-> u_device_assign_xdev_roles(xdevs, "left"),
   right |-> u_device_assign_xdev_roles(xdevs, "right"),
   access |-> {}, default_qdev |-> "none"]

\* One test of the chain of lines 53-60: xdevs[idx] == xd, with the line
\* to go to if it is false.
role_test(r, idx, xd, else_at) ==
  IF idx \notin 0..(Len(r.xdevs) - 1)
  THEN [r EXCEPT !.phase = "undefined", !.access = @ \cup {idx}]
  ELSE IF r.xdevs[idx + 1] = xd
  THEN [r EXCEPT !.phase = "returned", !.access = @ \cup {idx}, !.default_qdev = xd]
  ELSE [r EXCEPT !.at = else_at, !.access = @ \cup {idx}]

\* Lines 53-63, one test at a time.
default_qwerty_device_at(r) ==
  CASE r.at = 53 -> role_test(r, r.head, r.xd_hmd, 55)
    [] r.at = 55 -> role_test(r, r.right, r.xd_right, 57)
    [] r.at = 57 -> role_test(r, r.left, r.xd_left, 59)
    [] r.at = 59 -> [r EXCEPT !.phase = "returned", !.default_qdev = r.xd_right]

(***************************************************************************)
(* The hands and frames the model runs.  A hand enters a frame as an       *)
(* earlier frame left it: some wrist pose, fingers curled at a hinge, and  *)
(* a twist about the bone axis on bones that clamp_proximals limits.       *)
(***************************************************************************)
MaxEntryTwist == 3

Shapes == 0..1

TwistedBones == {<<0, 1>>, <<1, 0>>, <<1, 1>>, <<4, 1>>}

CurledBones(shape) == IF shape = 0 THEN {} ELSE {<<2, 2>>, <<3, 2>>, <<3, 3>>}

EntryRotations(shape, tw) ==
  [f \in Fingers |-> [b \in Bones |->
     IF <<f, b>> \in TwistedBones THEN AngleAxis(tw, 3)
     ELSE IF <<f, b>> \in CurledBones(shape) THEN AngleAxis(-90, 1)
     ELSE IdRot]]

WristPoses ==
  <<Affine(IdRot, Zero3),
    Affine(MkRot(MatMul(Ry90, Rz90), 3, 0), <<24, -12, 36>>)>>

TargetMoves ==
  <<Affine(IdRot, Zero3),
    Affine(MkRot(Rx90, 3, 0), <<-12, 48, 0>>)>>

EntryHand(shape, tw, w) == MakeHand(EntryRotations(shape, tw), WristPoses[w])

\* The points of a frame: a hand of the given shape, moved rigidly; a right
\* hand arrives mirrored.
FramePoints(shape, mv, idx) ==
  LET rest == JointPositions(EntryHand(shape, 0, 1))
      moved == [k \in 0..20 |-> AffApply(TargetMoves[mv], rest[k])]
  IN  [k \in 0..20 |-> IF idx = 0 THEN moved[k] ELSE MirrorX(moved[k])]

NoOutput == [is_active |-> FALSE, joints |-> <<>>, writes |-> <<>>]

NoHinge == [phase |-> "off"]

NoProx == [phase |-> "off"]

NoCall == Stmt("none", 0, 0, <<>>)

\* The entry of optimize_new_frame(): nothing executed yet.
InitSolve ==
  /\ pc = 482
  /\ stack = <<>>
  /\ i = 0
  /\ finger_idx = 0
  /\ last = [stmt |-> NoCall, num_children |-> 0]
  /\ trace = <<>>
  /\ count = [two |-> 0, iterations |-> 0]

InitCall ==
  /\ InitSolve
  /\ qwerty = QwertyStart
  /\ gui = GuiStart
  /\ inst = InstStart
  /\ roles = RolesStart

InitControl ==
  /\ InitCall
  /\ hinge = NoHinge
  /\ prox = NoProx

\* The frames the model runs: shape, entry wrist pose, move of the target
\* points, handedness.
Frames == <<[shape |-> 0, w |-> 1, mv |-> 1, idx |-> 0],
            [shape |-> 0, w |-> 2, mv |-> 2, idx |-> 1],
            [shape |-> 1, w |-> 2, mv |-> 1, idx |-> 1],
            [shape |-> 1, w |-> 1, mv |-> 2, idx |-> 0]>>

\* The entry twists: positive in the frames of shape 0, negative in the others.
EntryTwist(fr, n) == IF fr.shape = 0 THEN n ELSE -n

\* One hand and one frame.
Init ==
  /\ InitControl
  /\ \E c \in 1..Len(Frames), n \in 0..MaxEntryTwist :
       LET fr == Frames[c]
       IN  /\ hands = <<EntryHand(fr.shape, EntryTwist(fr, n), fr.w)>>
           /\ in_pts = <<FramePoints(fr.shape, fr.mv, fr.idx)>>
           /\ hand_idx = <<fr.idx>>
  /\ out_set = <<NoOutput>>
  /\ entry = hands

(***************************************************************************)
(* The steps of optimize_new_frame().  Every hand of the state takes the   *)
(* same step: the control flow reads no data.                              *)
(***************************************************************************)
Hands == DOMAIN hands

Running == hinge = NoHinge /\ prox = NoProx

Log(stmt, n) ==
  /\ last' = [stmt |-> stmt, num_children |-> n]
  /\ trace' = Append(trace, stmt)

\* Lines 481-494.
Intake ==
  /\ Running /\ pc = 482
  /\ hands' = [k \in Hands |-> intake(hands[k], in_pts[k], hand_idx[k])]
  /\ pc' = 497
  /\ UNCHANGED <<stack, i, finger_idx, in_pts, hand_idx, out_set, last, trace, count,
                 hinge, prox, entry, qwerty, gui, inst, roles>>

\* Line 497: optimize(hand); line 387: int i = 0.
CallOptimize ==
  /\ Running /\ pc = 497
  /\ stack' = <<501>> \o stack
  /\ pc' = 387
  /\ i' = 0
  /\ UNCHANGED <<finger_idx, hands, in_pts, hand_idx, out_set, last, trace, count,
                 hinge, prox, entry, qwerty, gui, inst, roles>>

\* The loop test as i <= 15.
LoopTestOffByOne ==
  /\ hinge = [phase |-> "off"] /\ prox = [phase |-> "off"]
  /\ pc = 387
  /\ pc' = IF i <= 15 THEN 388 ELSE 408
  /\ trace' = <<>>
  /\ UNCHANGED <<stack, i, finger_idx, hands, in_pts, hand_idx, out_set, last, count,
                 hinge, prox, entry, qwerty, gui, inst, roles>>

\* Line 387: i < 15.
LoopTest ==
  /\ Running /\ Current.fn = "for"
  /\ pc' = IF i < NumIterations THEN LineAfter(pc) ELSE 408
  /\ trace' = <<>>
  /\ UNCHANGED <<stack, i, finger_idx, hands, in_pts, hand_idx, out_set, last, count,
                 hinge, prox, entry, qwerty, gui, inst, roles>>

\* Line 387: i++, at the end of the loop body.
LoopIncrement ==
  /\ Running /\ Current.fn = "i++"
  /\ i' = i + 1
  /\ pc' = 387
  /\ count' = [count EXCEPT !.iterations = @ + 1]
  /\ UNCHANGED <<stack, finger_idx, hands, in_pts, hand_idx, out_set, last, trace,
                 hinge, prox, entry, qwerty, gui, inst, roles>>

Two ==
  /\ Running /\ Current.fn = "two"
  /\ hands' = [k \in Hands |-> two(hands[k])]
  /\ pc' = LineAfter(pc)
  /\ Log(Current, 0)
  /\ count' = [count EXCEPT !.two = @ + 1]
  /\ UNCHANGED <<stack, i, finger_idx, in_pts, hand_idx, out_set, hinge, prox, entry, qwerty, gui, inst, roles>>

DoItForBone ==
  /\ Running /\ Current.fn = "do_it_for_bone"
  /\ hands' = [k \in Hands |-> do_it_for_bone(hands[k], Current.finger, Current.bone)]
  /\ pc' = LineAfter(pc)
  /\ Log(Current, Cardinality(children(Current.bone)))
  /\ UNCHANGED <<stack, i, finger_idx, in_pts, hand_idx, out_set, count, hinge, prox, entry, qwerty, gui, inst, roles>>

ClampProximals ==
  /\ Running /\ Current.fn = "clamp_proximals"
  /\ LET a == Current.args
     IN  hands' = [k \in Hands |->
                     clamp_proximals(hands[k], Current.finger, Current.bone,
                                     a[1], a[2], a[3], a[4], a[5])]
  /\ pc' = LineAfter(pc)
  /\ Log(Current, 0)
  /\ UNCHANGED <<stack, i, finger_idx, in_pts, hand_idx, out_set, count, hinge, prox, entry, qwerty, gui, inst, roles>>

ClampToXAxis ==
  /\ Running /\ Current.fn = "clamp_to_x_axis"
  /\ LET a == Current.args
     IN  hands' = [k \in Hands |->
                     clamp_to_x_axis(hands[k], Current.finger, Current.bone, TRUE, a[1], a[2])]
  /\ pc' = LineAfter(pc)
  /\ Log(Current, 0)
  /\ UNCHANGED <<stack, i, finger_idx, in_pts, hand_idx, out_set, count, hinge, prox, entry, qwerty, gui, inst, roles>>

StaticsInitWorldPoses ==
  /\ Running /\ Current.fn = "_statics_init_world_poses"
  /\ hands' = [k \in Hands |-> _statics_init_world_poses(hands[k])]
  /\ pc' = LineAfter(pc)
  /\ Log(Current, 0)
  /\ UNCHANGED <<stack, i, finger_idx, in_pts, hand_idx, out_set, count, hinge, prox, entry, qwerty, gui, inst, roles>>

\* Lines 403-406: do_it_for_finger(hand, n).
CallDoItForFinger ==
  /\ Running /\ Current.fn = "do_it_for_finger"
  /\ stack' = <<LineAfter(pc)>> \o stack
  /\ finger_idx' = Current.finger
  /\ pc' = FingerLines[1]
  /\ UNCHANGED <<i, hands, in_pts, hand_idx, out_set, last, trace, count, hinge, prox, entry, qwerty, gui, inst, roles>>

\* The end of do_it_for_finger() and of optimize().
Return ==
  /\ Running /\ Current.fn = "return"
  /\ pc' = Head(stack)
  /\ stack' = Tail(stack)
  /\ finger_idx' = 0
  /\ UNCHANGED <<i, hands, in_pts, hand_idx, out_set, last, trace, count, hinge, prox, entry, qwerty, gui, inst, roles>>

\* Lines 499-525.
Outtake ==
  /\ Running /\ pc = 501
  /\ out_set' = [k \in Hands |-> [out_set[k] EXCEPT !.joints = outtake(hands[k], hand_idx[k]),
                                               !.writes = outtake_writes]]
  /\ pc' = 527
  /\ UNCHANGED <<stack, i, finger_idx, hands, in_pts, hand_idx, last, trace, count,
                 hinge, prox, entry, qwerty, gui, inst, roles>>

\* Line 527; at line 528 the call has returned.
SetActive ==
  /\ Running /\ pc = 527
  /\ out_set' = [k \in Hands |-> [out_set[k] EXCEPT !.is_active = TRUE]]
  /\ pc' = 528
  /\ UNCHANGED <<stack, i, finger_idx, hands, in_pts, hand_idx, last, trace, count,
                 hinge, prox, entry, qwerty, gui, inst, roles>>

Done == pc = 528

\* Some step of the call is enabled: the guards of the actions.
CanStep ==
  \/ pc \in {482, 497, 501, 527}
  \/ Current.fn \in {"for", "i++", "two", "do_it_for_bone", "clamp_proximals",
                     "clamp_to_x_axis", "_statics_init_world_poses", "do_it_for_finger"}
  \/ Current.fn = "return" /\ stack # <<>>

Next ==
  \/ Intake
  \/ CallOptimize
  \/ LoopTest
  \/ LoopIncrement
  \/ Two
  \/ DoItForBone
  \/ ClampProximals
  \/ ClampToXAxis
  \/ StaticsInitWorldPoses
  \/ CallDoItForFinger
  \/ Return
  \/ Outtake
  \/ SetActive

Spec == Init /\ [][Next]_vars

(***************************************************************************)
(* Two Hand instances given the same frame.  They enter with different     *)
(* wrist poses and with the same or with different bone rotations, and     *)
(* take the steps of optimize_new_frame() side by side.                    *)
(***************************************************************************)
PairFrames == {1, 3}

PairInit ==
  /\ InitControl
  /\ \E c \in PairFrames, n \in 0..MaxEntryTwist, m \in 0..MaxEntryTwist :
       LET fr == Frames[c]
           points == FramePoints(fr.shape, fr.mv, fr.idx)
       IN  /\ m \in {0, n}
           /\ hands = <<EntryHand(fr.shape, EntryTwist(fr, n), fr.w),
                        EntryHand(fr.shape, EntryTwist(fr, m), 3 - fr.w)>>
           /\ in_pts = <<points, points>>
           /\ hand_idx = <<fr.idx, fr.idx>>
  /\ out_set = <<NoOutput, NoOutput>>
  /\ entry = hands

PairSpec == PairInit /\ [][Next]_vars

(***************************************************************************)
(* Two Hand instances in the same state, one given a frame as a left hand  *)
(* and one given the X-mirrored frame as a right hand.                     *)
(***************************************************************************)
MirrorFrames == {2, 3}

MirrorInit ==
  /\ InitControl
  /\ \E c \in MirrorFrames, n \in 0..MaxEntryTwist :
       LET fr == Frames[c]
           h == EntryHand(fr.shape, EntryTwist(fr, n), fr.w)
           P == FramePoints(fr.shape, fr.mv, 0)
       IN  /\ hands = <<h, h>>
           /\ in_pts = <<P, [k \in 0..20 |-> MirrorX(P[k])]>>
           /\ hand_idx = <<0, 1>>
  /\ out_set = <<NoOutput, NoOutput>>
  /\ entry = hands

MirrorSpec == MirrorInit /\ [][Next]_vars

(***************************************************************************)
(* clamp_to_x_axis() on its own: one call, on a bone rotation and a range. *)
(***************************************************************************)
\* The ranges optimize() and do_it_for_finger() pass.
OptimizerRanges ==
  {optimize_body(OptimizeLines[n]).args :
     n \in {m \in 1..Len(OptimizeLines) :
              optimize_body(OptimizeLines[m]).fn = "clamp_to_x_axis"}}
  \cup
  {do_it_for_finger_body(FingerLines[n], 1).args :
     n \in {m \in 1..Len(FingerLines) :
              do_it_for_finger_body(FingerLines[m], 1).fn = "clamp_to_x_axis"}}

\* Those, the default range, and ranges on one side of zero or wider than a
\* half turn.
HingeRanges == OptimizerRanges \cup {<<0, 0>>, <<-10, 170>>, <<10, 40>>, <<-90, -50>>}

\* The whole degrees of (-180, 180].
Angles == -179..180

\* Rotations that take the X axis to X, to -Z and to Y.
Tilts == {Identity3, Ry90, Rz90}

HingeInputs == {RotMul(MkRot(g, 3, 0), AngleAxis(a, 1)) : g \in Tilts, a \in Angles}

NoInput ==
  /\ InitCall
  /\ hands = <<>>
  /\ in_pts = <<>>
  /\ hand_idx = <<>>
  /\ out_set = <<>>
  /\ entry = <<>>

\* The solver at rest, for the parts of the program that do not call it.
NoSolve ==
  /\ InitSolve
  /\ hands = <<>>
  /\ in_pts = <<>>
  /\ hand_idx = <<>>
  /\ out_set = <<>>
  /\ entry = <<>>
  /\ hinge = NoHinge
  /\ prox = NoProx

HingeInit ==
  /\ NoInput
  /\ prox = NoProx
  /\ \E r \in HingeRanges, linear \in HingeInputs, clamp_angle \in BOOLEAN :
       hinge = [phase |-> "in", clamp_angle |-> clamp_angle,
                min_angle |-> r[1], max_angle |-> r[2],
                input |-> linear, linear |-> linear]

\* The call: lines 147-199 on bone_relation.linear().
HingeClamp ==
  /\ hinge.phase = "in"
  /\ hinge' = [hinge EXCEPT
                 !.phase = "out",
                 !.linear = clamp_to_x_axis_rot(hinge.input, hinge.clamp_angle,
                                                hinge.min_angle, hinge.max_angle)]
  /\ UNCHANGED <<pc, stack, i, finger_idx, hands, in_pts, hand_idx, out_set,
                 last, trace, count, prox, entry, qwerty, gui, inst, roles>>

HingeNext == HingeClamp

HingeSpec == HingeInit /\ [][HingeNext]_vars

\* The angle line 173 measures, and the angle of the rotation the call left.
Measured == rotation_value_of(lock_to_x_axis(hinge.input))

Result == rotation_value_of(hinge.linear)

HingeClamped == hinge.phase = "out" /\ hinge.clamp_angle

(***************************************************************************)
(* clamp_proximals() on its own: one call, on a bone rotation and limits.  *)
(***************************************************************************)
\* The limits optimize() and do_it_for_finger() pass.
ProxArgs ==
  {optimize_body(OptimizeLines[n]).args :
     n \in {m \in 1..Len(OptimizeLines) :
              optimize_body(OptimizeLines[m]).fn = "clamp_proximals"}}
  \cup
  {do_it_for_finger_body(FingerLines[n], 1).args :
     n \in {m \in 1..Len(FingerLines) :
              do_it_for_finger_body(FingerLines[m], 1).fn = "clamp_proximals"}}

\* Those, and the defaults of lines 293-297 (max_swing_angle = 0).
ProxLimits == ProxArgs \cup {<<0, tan_rad(-20), tan_rad(20), tan_rad(-89), tan_rad(30)>>}

\* The bone rotations: the forward axis on a coordinate axis, any twist.
ProxInputs == {MkRot(g, 3, a) : g \in RotGroup, a \in -44..45}

ProxInit ==
  /\ NoInput
  /\ hinge = NoHinge
  /\ \E rot \in ProxInputs, a \in ProxLimits :
       prox = [phase |-> "in", rot |-> rot, args |-> a]

\* The call: lines 299-358 on bone_relation.linear().  st is the swing and
\* twist of lines 307-320, c what lines 334-354 make of them.
ProxClamp ==
  /\ prox.phase = "in"
  /\ LET a == prox.args
         st == swing_twist(prox.rot)
     IN  prox' = [phase |-> "out", rot |-> prox.rot, args |-> a, st |-> st,
                  c |-> clamp_proximals_st(st, a[1], a[2], a[3], a[4], a[5]),
                  linear |-> clamp_proximals_rot(prox.rot, a[1], a[2], a[3], a[4], a[5])]
  /\ UNCHANGED <<pc, stack, i, finger_idx, hands, in_pts, hand_idx, out_set,
                 last, trace, count, hinge, entry, qwerty, gui, inst, roles>>

ProxNext == ProxClamp

ProxSpec == ProxInit /\ [][ProxNext]_vars

(***************************************************************************)
(* clamp_proximals() called again on what it returned.  The rotations here *)
(* are matrices of fractions, [n, d] for n / d, so that a forward axis off *)
(* the coordinate axes is exact too.                                       *)
(***************************************************************************)
QuatComponents == -2..2

\* The bone rotations: bone_relation.linear() of the quaternion q = <<w, x,
\* y, z>> with small whole components.
RationalRotation(q) ==
  LET w == q[1]
      x == q[2]
      y == q[3]
      z == q[4]
  IN  [n |-> <<<<w*w + x*x - y*y - z*z, 2 * (x*y - w*z), 2 * (x*z + w*y)>>,
               <<2 * (x*y + w*z), w*w - x*x + y*y - z*z, 2 * (y*z - w*x)>>,
               <<2 * (x*z - w*y), 2 * (y*z + w*x), w*w - x*x - y*y + z*z>>>>,
       d |-> w*w + x*x + y*y + z*z]

AgainInputs ==
  {RationalRotation(q) : q \in {p \in QuatComponents \X QuatComponents \X QuatComponents \X QuatComponents : p # <<0, 0, 0, 0>>}}

\* cos(max_swing_angle) in thousandths, rounded down and rounded up.
cos_rad(deg) ==
  CASE deg = 0 -> [lo |-> 1000, hi |-> 1000]
    [] deg = 4 -> [lo |-> 997, hi |-> 998]
    [] deg = 70 -> [lo |-> 342, hi |-> 343]

\* A matrix of fractions in lowest terms.
reduced(r) ==
  LET row(v) == Gcd(Gcd(Abs(v[1]), Abs(v[2])), Abs(v[3]))
      g == Gcd(Gcd(Gcd(row(r.n[1]), row(r.n[2])), row(r.n[3])), Abs(r.d))
  IN  [n |-> [a \in 1..3 |-> [b \in 1..3 |-> r.n[a][b] \div g]], d |-> r.d \div g]

\* Line 309: setFromTwoVectors(-UnitZ, our_z) for the unit vector our_z / len
\* (Rodrigues: I + [v]x + [v]x^2 / (1 + c), v = -Z x our_z, c = -our_z.z).
shortest_arc_from_forward(our_z, len) ==
  LET V == <<<<0, 0, -our_z[1]>>, <<0, 0, -our_z[2]>>, <<our_z[1], our_z[2], 0>>>>
      V2 == MatMul(V, V)
      D == len * (len - our_z[3])
  IN  reduced([n |-> [a \in 1..3 |-> [b \in 1..3 |->
                        (IF a = b THEN D ELSE 0) + (len - our_z[3]) * V[a][b] + V2[a][b]]],
               d |-> D])

\* Lines 302-320 on a matrix of fractions: the forward axis and the twist
\* matrix.  A forward axis on +Z has no shortest arc from -Z.
swing_twist_exact(rot) ==
  LET our_z == VNeg(<<rot.n[1][3], rot.n[2][3], rot.n[3][3]>>)
  IN  IF our_z[3] = rot.d THEN [ok |-> FALSE, our_z |-> our_z, len |-> rot.d]
      ELSE LET simple == shortest_arc_from_forward(our_z, rot.d)
           IN  [ok |-> TRUE, our_z |-> our_z, len |-> rot.d,
                twist |-> reduced([n |-> MatMul(rot.n, Transpose(simple.n)),
                                   d |-> rot.d * simple.d])]

\* Line 334: fabs(twist_aax.angle()) > max_swing_angle, on the cosine of the
\* twist, (trace - 1) / 2: "no", "yes", or "close" when the thousandths do not
\* tell.
twist_over_limit(twist, max_swing_angle) ==
  LET c == Milli(twist.n[1][1] + twist.n[2][2] + twist.n[3][3] - twist.d, 2 * twist.d).m
      lim == cos_rad(max_swing_angle)
  IN  IF c >= lim.hi THEN "no" ELSE IF c < lim.lo THEN "yes" ELSE "close"

\* Lines 345-354: the guard, the division and the two clamps.
clamp_swing(our_z, len, tanangle_left, tanangle_right, tanangle_curled, tanangle_uncurled) ==
  LET z == hemisphere_guard(our_z, len)
      t == tangents(our_z, len, z)
  IN  [z |-> z, nan |-> t.nan, t |-> t,
       x |-> clamp(t.x, tanangle_left, tanangle_right),
       y |-> clamp(t.y, tanangle_curled, tanangle_uncurled)]

\* Lines 356-358: the forward axis of twist_aax * simple, as a direction:
\* the twist applied to the clamped forward axis.
forward_of(twist, c) ==
  LET dir == normalized(<<c.x.n * c.y.d, c.y.n * c.x.d, -(c.x.d * c.y.d)>>)
  IN  normalized(MatVec(twist.n, dir))

\* One call on a matrix of fractions with an uncapped twist: the twist is
\* kept (lines 334-342 leave it), the swing is clamped.  exact says that the
\* result is within the fractions: the twist is surely under its cap and
\* the result's forward axis is in the front hemisphere.
clamp_proximals_exact(rot, a) ==
  LET st == swing_twist_exact(rot)
  IN  IF ~st.ok THEN [exact |-> FALSE]
      ELSE IF twist_over_limit(st.twist, a[1]) # "no" THEN [exact |-> FALSE]
      ELSE LET c == clamp_swing(st.our_z, st.len, a[2], a[3], a[4], a[5])
           IN  IF c.nan THEN [exact |-> FALSE]
               ELSE LET our_z == forward_of(st.twist, c)
                    IN  [exact |-> our_z[3] < 0, st |-> st, c |-> c, our_z |-> our_z]

AgainInit ==
  /\ NoInput
  /\ hinge = NoHinge
  /\ \E rot \in AgainInputs, a \in ProxLimits :
       prox = [phase |-> "again_in", rot |-> rot, args |-> a]

\* The first call.
AgainFirst ==
  /\ prox.phase = "again_in"
  /\ prox' = [phase |-> "once", rot |-> prox.rot, args |-> prox.args,
              first |-> clamp_proximals_exact(prox.rot, prox.args)]
  /\ UNCHANGED <<pc, stack, i, finger_idx, hands, in_pts, hand_idx, out_set,
                 last, trace, count, hinge, entry, qwerty, gui, inst, roles>>

\* The second call, on the first call's result: its twist fixes its own
\* forward axis, so it returns the rotation unchanged exactly when its
\* clamps leave that axis's tangents alone.
AgainSecond ==
  /\ prox.phase = "once"
  /\ prox.first.exact
  /\ LET a == prox.args
     IN  prox' = [phase |-> "twice", rot |-> prox.rot, args |-> a, first |-> prox.first,
                  second |-> clamp_swing(prox.first.our_z, 1, a[2], a[3], a[4], a[5])]
  /\ UNCHANGED <<pc, stack, i, finger_idx, hands, in_pts, hand_idx, out_set,
                 last, trace, count, hinge, entry, qwerty, gui, inst, roles>>

AgainNext == AgainFirst \/ AgainSecond

AgainSpec == AgainInit /\ [][AgainNext]_vars

(***************************************************************************)
(* do_it_for_bone() on its own: one call, on a bone that holds a rotation  *)
(* old, with targets that ask for the correction c in the bone's frame.    *)
(***************************************************************************)
\* The calls of do_it_for_bone: line and finger.
EstimateCalls ==
  {<<OptimizeLines[n], 0>> :
     n \in {m \in 1..Len(OptimizeLines) : optimize_body(OptimizeLines[m]).fn = "do_it_for_bone"}}
  \cup
  {<<FingerLines[n], f>> :
     n \in {m \in 1..Len(FingerLines) : do_it_for_finger_body(FingerLines[m], 1).fn = "do_it_for_bone"},
     f \in 1..4}

\* The corrections: none, or a quarter turn that swings the bone's -Z.
Corrections == {IdRot, AngleAxis(90, 1), AngleAxis(-90, 1), AngleAxis(90, 2), AngleAxis(-90, 2)}

\* A straight hand but for the rotation rot on bone b of finger f.
OneBoneHand(f, b, rot) ==
  MakeHand([g \in Fingers |-> [c \in Bones |-> IF <<g, c>> = <<f, b>> THEN rot ELSE IdRot]],
           WristPoses[1])

EstimateInit ==
  /\ \E call \in EstimateCalls, g \in RotGroup, c \in Corrections :
       LET f == call[2]
           stmt == IF InFinger(call[1]) THEN do_it_for_finger_body(call[1], f)
                   ELSE optimize_body(call[1])
           old == MkRot(g, 3, 0)
           goal == OneBoneHand(f, stmt.bone, RotMul(old, c))
       IN  /\ pc = call[1]
           /\ finger_idx = f
           /\ stack = IF InFinger(call[1]) THEN <<LineAfter(402 + f), 501>> ELSE <<501>>
           /\ in_pts = <<JointPositions(goal)>>
           /\ hands = <<intake(OneBoneHand(f, stmt.bone, old), in_pts[1], 0)>>
  /\ i = 0
  /\ last = [stmt |-> NoCall, num_children |-> 0]
  /\ trace = <<>>
  /\ count = [two |-> 0, iterations |-> 0]
  /\ qwerty = QwertyStart
  /\ gui = GuiStart
  /\ inst = InstStart
  /\ roles = RolesStart
  /\ hand_idx = <<0>>
  /\ out_set = <<NoOutput>>
  /\ entry = hands
  /\ hinge = NoHinge
  /\ prox = NoProx

EstimateNext == DoItForBone

EstimateSpec == EstimateInit /\ [][EstimateNext]_vars

(***************************************************************************)
(* Frames entered with twists beyond the caps of clamp_proximals: the      *)
(* solve has rotations to change.                                          *)
(***************************************************************************)
OverTwists == {10, 30, 80}

TwistedInit ==
  /\ InitControl
  /\ \E c \in 1..Len(Frames), n \in OverTwists :
       LET fr == Frames[c]
       IN  /\ hands = <<EntryHand(fr.shape, EntryTwist(fr, n), fr.w)>>
           /\ in_pts = <<FramePoints(fr.shape, fr.mv, fr.idx)>>
           /\ hand_idx = <<fr.idx>>
  /\ out_set = <<NoOutput>>
  /\ entry = hands

TwistedSpec == TwistedInit /\ [][Next]_vars

(***************************************************************************)
(* The event loop: qwerty_process_event called on one event after another. *)
(***************************************************************************)
QwertyInit ==
  /\ NoInput
  /\ hinge = NoHinge
  /\ prox = NoProx

QwertyProcessEvent ==
  /\ \E xdevs \in Xdevs, event \in Events :
       qwerty' = qwerty_process_event(qwerty, xdevs, event)
  /\ UNCHANGED <<pc, stack, i, finger_idx, hands, in_pts, hand_idx, out_set,
                 last, trace, count, hinge, prox, entry, gui, inst, roles>>

QwertyNext == QwertyProcessEvent

QwertySpec == QwertyInit /\ [][QwertyNext]_vars

(***************************************************************************)
(* Frames of degenerate points: all 21 on one point, or on one line.       *)
(***************************************************************************)
DegeneratePoints ==
  {[k \in 0..20 |-> Zero3],
   [k \in 0..20 |-> <<12, -24, 36>>],
   [k \in 0..20 |-> <<0, 0, -12 * k>>],
   [k \in 0..20 |-> IF k = 0 THEN Zero3 ELSE <<12, 0, 0>>]}

DegenerateInit ==
  /\ InitControl
  /\ \E P \in DegeneratePoints, idx \in 0..1, w \in 1..Len(WristPoses) :
       /\ hands = <<EntryHand(0, 0, w)>>
       /\ in_pts = <<P>>
       /\ hand_idx = <<idx>>
  /\ out_set = <<NoOutput>>
  /\ entry = hands

DegenerateSpec == DegenerateInit /\ [][Next]_vars

\* The values stay in the exact domain: no hand holds a NaN.
Exact ==
  \A k \in Hands :
    /\ hands[k].wrist_relation.lin.ok
    /\ \A f \in Fingers, b \in Bones :
         /\ hands[k].bone_relation[f][b].lin.ok
         /\ hands[k].world_pose[f][b].lin.ok
         /\ ~IsNaNVec(hands[k].world_pose[f][b].t)

(***************************************************************************)
(* Properties of the control flow of optimize().                           *)
(***************************************************************************)
Key(stmt) == <<stmt.fn, stmt.finger, stmt.bone>>

\* C1: whenever the program is about to call do_it_for_bone or two, no bone
\* rotation and no wrist pose has been written since the last
\* _statics_init_world_poses: the world poses read are fresh.
C1_FreshAtEveryRead ==
  Current.fn \in {"do_it_for_bone", "two"} => \A k \in Hands : ~hands[k].written

\* An estimate in the last iteration, after the bone's parent was rewritten
\* and recomputed.
C1_Witness ==
  /\ Current.fn = "do_it_for_bone" /\ Current.finger = 4 /\ Current.bone = 1
  /\ i = 14
  /\ last.stmt.fn = "_statics_init_world_poses"
  /\ \A k \in Hands : ~hands[k].written

\* The statements of one pass over finger f, as the statement "swing/twist
\* limit on the first n bones, hinge limit with a range on the others" has it.
FingerPass(f, n) ==
  [k \in 1..12 |->
     LET b == (k - 1) \div 3
     IN  CASE k % 3 = 1 -> <<"do_it_for_bone", f, b>>
           [] k % 3 = 2 -> <<IF b < n THEN "clamp_proximals" ELSE "clamp_to_x_axis", f, b>>
           [] k % 3 = 0 -> <<"_statics_init_world_poses", f, b>>]

\* The last 12 statements executed, when do_it_for_finger returns.
LastPass == [k \in 1..12 |-> Key(trace[Len(trace) - 12 + k])]

AtFingerReturn == InFinger(pc) /\ Current.fn = "return"

Left(k) == [wrist_relation |-> hands[k].wrist_relation,
            bone_relation |-> hands[k].bone_relation,
            world_pose |-> hands[k].world_pose,
            out_set |-> out_set[k]]

SameEntryRotations == \A k \in Hands : entry[k].bone_relation = entry[1].bone_relation

C4_FifteenThenAlign ==
  /\ Done => /\ i = 15
             /\ count.iterations = 15
             /\ count.two = 31
             /\ Key(last.stmt) = <<"two", 0, 0>>
             /\ trace = <<last.stmt>>
  /\ ~Done => CanStep
  /\ i <= 15
  /\ count.iterations = i
  /\ count.two <= 2 * i + 2

C4_Witness == Done /\ count.two = 31 /\ \A k \in Hands : out_set[k].is_active

\* The eleven statements that open an iteration: alignment, the three thumb
\* bones (swing/twist limit on bone 1, hinge limit on bones 2 and 3, a
\* recompute after each), alignment again.
IterationHead ==
  <<<<"two", 0, 0>>,
    <<"do_it_for_bone", 0, 1>>, <<"clamp_proximals", 0, 1>>, <<"_statics_init_world_poses", 0, 1>>,
    <<"do_it_for_bone", 0, 2>>, <<"clamp_to_x_axis", 0, 2>>, <<"_statics_init_world_poses", 0, 2>>,
    <<"do_it_for_bone", 0, 3>>, <<"clamp_to_x_axis", 0, 3>>, <<"_statics_init_world_poses", 0, 3>>,
    <<"two", 0, 0>>>>

\* C5: within an iteration the statements executed so far are a prefix of:
\* alignment, thumb, alignment, then fingers 1, 2, 3, 4 one after the other
\* (twelve statements each); a complete iteration has all of them.
C5_IterationOrder ==
  /\ \A n \in 1..Len(trace) :
       IF n <= Len(IterationHead) THEN Key(trace[n]) = IterationHead[n]
       ELSE /\ trace[n].fn # "two"
            /\ trace[n].finger = 1 + ((n - Len(IterationHead) - 1) \div 12)
  /\ Current.fn = "i++" => Len(trace) = Len(IterationHead) + 4 * 12

C5_Witness == Current.fn = "i++" /\ i = 14 /\ Len(trace) = 59

\* C6: every call of do_it_for_bone has a bone index of at most 3 and at
\* least one descendant to average over.
C6_HasDescendants ==
  /\ Current.fn = "do_it_for_bone" => Current.bone <= 3
  /\ last.stmt.fn = "do_it_for_bone" => last.stmt.bone <= 3 /\ last.num_children >= 1

C6_Witness ==
  last.stmt.fn = "do_it_for_bone" /\ last.stmt.bone = 3 /\ last.num_children = 1

(***************************************************************************)
(* Properties of clamp_to_x_axis().                                        *)
(***************************************************************************)
\* The distance between two angles around the circle.
CircDist(a, b) ==
  LET d == Abs(a - b) % 360
  IN  IF d > 180 THEN 360 - d ELSE d

C8_HingeBound ==
  (HingeClamped /\ <<hinge.min_angle, hinge.max_angle>> \in OptimizerRanges) =>
    /\ Result # NaN
    /\ hinge.min_angle <= Result /\ Result <= hinge.max_angle

\* A half turn, set to the lower bound.
C8_Witness ==
  /\ HingeClamped
  /\ <<hinge.min_angle, hinge.max_angle>> \in OptimizerRanges
  /\ Measured = 180
  /\ Result = hinge.min_angle

C10_DivisorNegative ==
  prox.phase = "out" => prox.c.z.n < 0 /\ prox.c.z.d > 0

\* A forward axis in the back hemisphere, replaced by -0.000001.
C10_Witness ==
  /\ prox.phase = "out"
  /\ prox.st.our_z[3] > 0
  /\ prox.c.z = [n |-> -1, d |-> EpsInv]

\* C11: the twist recomposed into the bone rotation has an angle of
\* magnitude at most max_swing_angle; a twist within the limit is passed
\* through unchanged, a larger one keeps its axis and sign and gets exactly
\* the limit; the cap never divides by zero, also for a zero twist and a
\* zero limit.
C11_TwistBound ==
  (prox.phase = "out" /\ prox.st.twist.angle # NaN) =>
    LET theta == prox.args[1]
        before == prox.st.twist
        after == prox.c.twist
    IN  /\ after.angle # NaN
        /\ Abs(after.angle) <= theta
        /\ Abs(before.angle) <= theta => after = before
        /\ Abs(before.angle) > theta =>
             /\ after.axis = before.axis
             /\ after.angle = theta * Sign(before.angle)

\* A twist of 30 degrees capped at the limit of 4.
C11_Witness ==
  /\ prox.phase = "out"
  /\ prox.args[1] = 4 /\ prox.st.twist.angle = 30 /\ prox.c.twist.angle = 4

(***************************************************************************)
(* Properties of the intake and the output of optimize_new_frame().        *)
(***************************************************************************)
\* C12: a left hand given P and a right hand given the X-mirror of P, in
\* the same state at entry, hold equal states throughout the call, and at
\* return every output joint of one has the position of the other with x
\* negated and y and z equal.
C12_MirrorSymmetry ==
  /\ hands[1] = hands[2]
  /\ Done =>
       /\ DOMAIN out_set[1].joints = DOMAIN out_set[2].joints
       /\ \A j \in DOMAIN out_set[1].joints :
            out_set[2].joints[j].position = MirrorX(out_set[1].joints[j].position)

\* Both calls have returned, with a joint off the mirror plane.
C12_Witness ==
  /\ Done
  /\ hand_idx = <<0, 1>>
  /\ in_pts[1] # in_pts[2]
  /\ hands[1] = hands[2]
  /\ \E j \in DOMAIN out_set[1].joints :
       /\ out_set[1].joints[j].position[1] # 0
       /\ out_set[2].joints[j].position = MirrorX(out_set[1].joints[j].position)


\* C13: fixed point.  A solve fed its own output applies every limiter to a
\* rotation that limiter already produced, and leaves it unchanged; for
\* clamp_proximals this says that the second call's clamps find the forward
\* axis of the first call's result within the tangent limits.
C13_LimiterFixedPoint ==
  prox.phase = "twice" =>
    /\ prox.second.x = prox.second.t.x
    /\ prox.second.y = prox.second.t.y

\* C14: intake mirroring.  After the intake loop every target point has the
\* input point's y and z, and its x unchanged for hand 0 (left) and negated
\* for hand 1 (right); column i of the target matrix holds the same three
\* values as t_jts[i].
C14_IntakeMirroring ==
  pc = 497 =>
    \A k \in Hands : \A n \in 0..20 :
      LET p == in_pts[k][n]
          t == hands[k].t_jts[n]
      IN  /\ t[2] = p[2]
          /\ t[3] = p[3]
          /\ hand_idx[k] = 0 => t[1] = p[1]
          /\ hand_idx[k] = 1 => t[1] = -p[1]
          /\ hands[k].t_jts_as_mat[n] = t

C14_Witness ==
  /\ pc = 497
  /\ hand_idx[1] = 1
  /\ \E n \in 0..20 : in_pts[1][n][1] > 0 /\ hands[1].t_jts_as_mat[n][1] = -in_pts[1][n][1]

\* C15: the solver is unconditional.  For every input, degenerate points
\* included, and both hands, the call runs to its return (no state before
\* the return is without a next step), returns with is_active set, and every
\* joint entry it wrote carries all four flags.
C15_Unconditional ==
  /\ ~Done => CanStep
  /\ Done =>
       \A k \in Hands :
         /\ out_set[k].is_active
         /\ \A j \in DOMAIN out_set[k].joints :
              out_set[k].joints[j].relation_flags = AllFlags

C15_Witness ==
  /\ Done
  /\ hand_idx[1] = 1
  /\ out_set[1].is_active
  /\ \E j \in DOMAIN out_set[1].joints :
       /\ IsNaNVec(out_set[1].joints[j].position)
       /\ out_set[1].joints[j].relation_flags = AllFlags

\* C16: output coverage.  One call writes one entry for the wrist, one for
\* the palm and one for every finger bone but the hidden thumb slot (26
\* entries: 24 finger bones and the two others); the finger-bone entries go,
\* in finger order and from the proximal end to the distal end, to
\* consecutive indices from the thumb metacarpal index on; no index is
\* written twice, and each entry is made from the pose of its bone.
NonHiddenBones == {fb \in Fingers \X Bones : ~hidden_thumb(fb[1], fb[2])}

BoneWrites(w) == SelectSeq(w, LAMBDA e : e.pose = "world_pose")

C16_OutputCoverage ==
  Done =>
    \A k \in Hands :
      LET w == out_set[k].writes
          b == BoneWrites(w)
      IN  /\ Cardinality({n \in DOMAIN w : w[n].pose = "wrist_relation"}) = 1
          /\ Cardinality({n \in DOMAIN w : w[n].pose = "palm_relation"}) = 1
          /\ \A n \in DOMAIN w : w[n].pose = "wrist_relation" => w[n].index = XRT_HAND_JOINT_WRIST
          /\ \A n \in DOMAIN w : w[n].pose = "palm_relation" => w[n].index = XRT_HAND_JOINT_PALM
          /\ \A fb \in NonHiddenBones :
               Cardinality({n \in DOMAIN b : <<b[n].finger, b[n].bone>> = fb}) = 1
          /\ \A n \in DOMAIN b : <<b[n].finger, b[n].bone>> \in NonHiddenBones
          /\ Len(b) = 24 /\ Len(w) = 26
          /\ \A n \in DOMAIN b : b[n].index = XRT_HAND_JOINT_THUMB_METACARPAL + n - 1
          /\ \A n, m \in DOMAIN b :
               n < m => \/ b[n].finger < b[m].finger
                        \/ b[n].finger = b[m].finger /\ b[n].bone < b[m].bone
          /\ \A n, m \in DOMAIN w : n # m => w[n].index # w[m].index
          /\ DOMAIN out_set[k].joints = {w[n].index : n \in DOMAIN w}
          /\ \A n \in DOMAIN b :
               out_set[k].joints[b[n].index] =
                 make_joint_at_matrix(hands[k].world_pose[b[n].finger][b[n].bone], hand_idx[k])

C16_Witness ==
  /\ Done
  /\ Len(out_set[1].writes) = 26
  /\ out_set[1].writes[3] = [index |-> 2, pose |-> "world_pose", finger |-> 0, bone |-> 1]
  /\ out_set[1].writes[26] = [index |-> 25, pose |-> "world_pose", finger |-> 4, bone |-> 4]

\* C17: the composition of do_it_for_bone.  As stated: the bone's new local
\* rotation is the shortest-arc correction composed on the left of the
\* previous one, new = correction o old (as matrices, rot * linear).
EstimateStep(compose(_, _)) ==
  DoItForBone =>
    \A k \in Hands :
      LET f == Current.finger
          b == Current.bone
          old == hands[k].bone_relation[f][b].lin
          correction == do_it_for_bone_rot(hands[k], f, b)
      IN  hands'[k].bone_relation[f][b].lin = compose(correction, old)

LeftOf(correction, old) == RotMul(correction, old)

RightOf(correction, old) == RotMul(old, correction)

C17_AsStated == [][EstimateStep(LeftOf)]_vars

\* C17, amended: the correction, which is computed in the bone's own frame,
\* is composed on the right of the previous rotation, new = old o correction
\* (as matrices, linear * rot), for every previous rotation and correction.
C17_ComposesOnRight == [][EstimateStep(RightOf)]_vars

\* A bone whose estimate was composed with a rotation it does not commute
\* with.
C17_Witness ==
  /\ Running /\ last.stmt.fn = "do_it_for_bone"
  /\ LET f == last.stmt.finger
         b == last.stmt.bone
         old == entry[1].bone_relation[f][b].lin
         new == hands[1].bone_relation[f][b].lin
     IN  /\ new.ok /\ new # old /\ old # IdRot
         /\ \E c \in Corrections : new = RotMul(old, c) /\ new # RotMul(c, old)

\* C18: the frame of the solve.  Between intake and outtake no step writes
\* the translation of a bone relation (the bone lengths) or the target
\* buffers t_jts / t_jts_as_mat; of the state that is not derived, two()
\* writes the wrist pose and the scratch matrix only (the world poses follow
\* from its forward kinematics), and do_it_for_bone, clamp_to_x_axis and
\* clamp_proximals write only the rotation of the one bone they are called on.
Lengths(h) == [f \in Fingers |-> [b \in Bones |-> h.bone_relation[f][b].t]]

Rotations(h) == [f \in Fingers |-> [b \in Bones |-> h.bone_relation[f][b].lin]]

Targets(h) == <<h.t_jts, h.t_jts_as_mat>>

FrameStep ==
  \A k \in Hands :
    /\ pc # 482 =>
         /\ Lengths(hands'[k]) = Lengths(hands[k])
         /\ Targets(hands'[k]) = Targets(hands[k])
    /\ Two => Rotations(hands'[k]) = Rotations(hands[k])
    /\ (DoItForBone \/ ClampToXAxis \/ ClampProximals) =>
         /\ hands'[k].wrist_relation = hands[k].wrist_relation
         /\ hands'[k].kinematic = hands[k].kinematic
         /\ hands'[k].world_pose = hands[k].world_pose
         /\ \A f \in Fingers, b \in Bones :
              <<f, b>> # <<Current.finger, Current.bone>> =>
                Rotations(hands'[k])[f][b] = Rotations(hands[k])[f][b]

C18_FrameOfSolve == [][FrameStep]_vars

\* At the outtake the solve has moved the wrist and turned a bone, and the
\* lengths and targets are those of the intake.
C18_Witness ==
  /\ pc = 501
  /\ hands[1].wrist_relation # entry[1].wrist_relation
  /\ Rotations(hands[1]) # Rotations(entry[1])
  /\ Lengths(hands[1]) = Lengths(entry[1])
  /\ Targets(hands[1]) = Targets(intake(entry[1], in_pts[1], hand_idx[1]))

\* C19: the keyboard focus rule.  After any sequence of events the device
\* that gets the current event's movement, look, sprint and speed calls is
\* the left controller if left CTRL is held, otherwise the right controller
\* if left ALT is held, otherwise the default device (so CTRL wins when both
\* are held); the default device is the one the first call determined.
FocusByKeys ==
  IF "SDLK_LCTRL" \in qwerty.held THEN "left"
  ELSE IF "SDLK_LALT" \in qwerty.held THEN "right"
  ELSE qwerty.first

C19_FocusRule ==
  qwerty.cached =>
    /\ qwerty.qdev = FocusByKeys
    /\ qwerty.default_qdev = qwerty.first
    /\ \A n \in DOMAIN qwerty.calls :
         qwerty.calls[n].fn # "qwerty_release_all" => qwerty.calls[n].dev = FocusByKeys
    /\ (qwerty.event.sym \in DOMAIN KeyInput \/ qwerty.event.type = "SDL_MOUSEWHEEL") =>
         \E n \in DOMAIN qwerty.calls :
           qwerty.calls[n].fn # "qwerty_release_all" /\ qwerty.calls[n].dev = FocusByKeys

C19_Witness ==
  /\ qwerty.held = {"SDLK_LCTRL", "SDLK_LALT"}
  /\ qwerty.first = "hmd"
  /\ qwerty.event = [type |-> "SDL_KEYDOWN", sym |-> "SDLK_a", rmask |-> FALSE]
  /\ qwerty.calls = <<[fn |-> "qwerty_press_left", dev |-> "left"]>>
  /\ qwerty.inputs["left"] = {"left"}

\* C20: no stuck input across a focus change.  Every CTRL or ALT key event
\* releases all inputs of the HMD (when there is one), the right controller
\* and the left controller before the focus is determined; so after any
\* sequence of events no device other than the focused one has an input
\* pressed.
FocusKeyEvent ==
  /\ qwerty.event.type \in {"SDL_KEYDOWN", "SDL_KEYUP"}
  /\ qwerty.event.sym \in {"SDLK_LCTRL", "SDLK_LALT"}

C20_NoStuckInput ==
  qwerty.cached =>
    /\ FocusKeyEvent =>
         /\ qwerty.calls = (IF qwerty.xd_hmd THEN <<[fn |-> "qwerty_release_all", dev |-> "hmd"]>>
                            ELSE <<>>)
                           \o <<[fn |-> "qwerty_release_all", dev |-> "right"],
                                [fn |-> "qwerty_release_all", dev |-> "left"]>>
         /\ \A d \in QwertyDevices : qwerty.at_focus[d] = {}
    /\ \A d \in QwertyDevices : d # qwerty.qdev => qwerty.inputs[d] = {}

C20_Witness ==
  /\ qwerty.event = [type |-> "SDL_KEYDOWN", sym |-> "SDLK_LCTRL", rmask |-> FALSE]
  /\ qwerty.before["hmd"] = {"left", "look_left", "sprint"}
  /\ qwerty.qdev = "left"
  /\ Len(qwerty.calls) = 3
  /\ qwerty.inputs["hmd"] = {}

(***************************************************************************)
(* The debug window: one build, roots visited one after the other.         *)
(***************************************************************************)
GuiInit ==
  /\ NoSolve
  /\ qwerty = QwertyStart
  /\ inst = InstStart
  /\ roles = RolesStart
  /\ gui \in {[GuiStart EXCEPT !.ndebug = b] : b \in BOOLEAN}

GuiRest ==
  UNCHANGED <<pc, stack, i, finger_idx, hands, in_pts, hand_idx, out_set,
              last, trace, count, hinge, prox, entry, qwerty, inst, roles>>

OnRootEnter ==
  /\ gui.phase \in {"idle", "exited"}
  /\ gui' = on_root_enter(gui)
  /\ GuiRest

OnElem ==
  /\ gui.phase = "root"
  /\ gui.elems < MaxElems
  /\ \E kind \in Kinds, is_open \in BOOLEAN : gui' = on_elem(gui, kind, is_open)
  /\ GuiRest

OnRootExit ==
  /\ gui.phase = "root"
  /\ gui' = on_root_exit(gui)
  /\ GuiRest

GuiNext == OnRootEnter \/ OnElem \/ OnRootExit

GuiSpec == GuiInit /\ [][GuiNext]_vars

\* C21: between on_root_enter and on_root_exit every read and write of
\* vis_stack uses an index from 0 to MAX_HEADER_NESTING - 1, whatever kinds
\* are visited, and a root whose GUI_HEADER_BEGIN and GUI_HEADER_END
\* elements pair up reaches on_root_exit with vis_i = 0.
C21_VisStackInBounds ==
  /\ gui.access \subseteq VisSlots
  /\ (gui.phase = "exited" /\ ~gui.orphan /\ gui.open = <<>>) => gui.at_exit = 0

\* The last element, if drawn, had every enclosing header open.  The
\* GUI_HEADER_END of a header is not an element of its own.
DrawnInOpenHeaders ==
  (gui.last.drawn /\ gui.last.kind \in Kinds \ {"GUI_HEADER_END"})
    => \A k \in 1..Len(gui.last.enclosing) : gui.last.enclosing[k] = "open"

\* igUnindent was called for a header drawn open, and at the end of a root
\* whose headers pair up igIndent and igUnindent were called equally often.
IndentsPairUp ==
  /\ gui.last.unindent => gui.last.header = "open"
  /\ (gui.phase = "exited" /\ gui.open = <<>>) => gui.indent = 0

InstInit ==
  /\ NoSolve
  /\ qwerty = QwertyStart
  /\ gui = GuiStart
  /\ roles = RolesStart
  /\ inst = InstStart

InstRest ==
  UNCHANGED <<pc, stack, i, finger_idx, hands, in_pts, hand_idx, out_set,
              last, trace, count, hinge, prox, entry, qwerty, gui, roles>>

CreateSystemCall ==
  /\ inst.phase \in {"idle", "returned"}
  /\ \E ndebug \in BOOLEAN, out_xsysd, out_xso \in CallerPointers :
     \E out_xsysc \in CallerPointers \cup {"absent"} :
       inst' = create_system_call(ndebug, out_xsysd, out_xso, out_xsysc)
  /\ InstRest

CreateSystemLine ==
  /\ inst.phase = "running"
  /\ inst.fn = "t_instance_create_system"
  /\ \E result \in CreateResults, xsysd, xso \in {"NULL", "made"} :
       /\ result = "XRT_SUCCESS" => (xsysd = "made" /\ xso = "made")
       /\ inst' = t_instance_create_system(inst, result, xsysd, xso)
  /\ InstRest

InstanceCreateCall ==
  /\ inst.phase \in {"idle", "returned"}
  /\ \E out_xinst \in CallerPointers : inst' = instance_create_call(out_xinst)
  /\ InstRest

InstanceCreateLine ==
  /\ inst.phase = "running"
  /\ inst.fn = "xrt_instance_create"
  /\ \E ret \in {-1, 0}, tinst \in {"NULL", "made"} :
       inst' = xrt_instance_create(inst, ret, tinst)
  /\ InstRest

InstNext ==
  CreateSystemCall \/ CreateSystemLine \/ InstanceCreateCall \/ InstanceCreateLine

InstSpec == InstInit /\ [][InstNext]_vars

Returned(fn) == inst.phase = "returned" /\ inst.fn = fn

\* C23: t_instance_create_system returns XRT_ERROR_ALLOCATION without
\* creating devices when a system-compositor output is supplied, returns
\* the error of u_system_devices_create_from_prober when that fails, in
\* both cases with *out_xsysd and *out_xso as the caller passed them, and
\* returns XRT_SUCCESS only with both assigned; xrt_instance_create returns
\* XRT_ERROR_PROBER_CREATION_FAILED with *out_xinst not written.
C23_OutputsOnlyOnSuccess ==
  /\ Returned("t_instance_create_system") =>
       /\ inst.out_xsysc # "absent" => (inst.ret = "XRT_ERROR_ALLOCATION" /\ ~inst.created)
       /\ (inst.created /\ inst.xret # "XRT_SUCCESS") => inst.ret = inst.xret
       /\ inst.ret # "XRT_SUCCESS" =>
            (inst.written = {} /\ <<inst.out_xsysd, inst.out_xso>> = inst.given)
       /\ inst.ret = "XRT_SUCCESS" =>
            /\ inst.written = {"out_xsysd", "out_xso"}
            /\ inst.out_xsysd = inst.xsysd /\ inst.out_xso = inst.xso
  /\ Returned("xrt_instance_create") =>
       /\ inst.xret < 0 <=> inst.ret = "XRT_ERROR_PROBER_CREATION_FAILED"
       /\ inst.ret = "XRT_ERROR_PROBER_CREATION_FAILED" =>
            (inst.written = {} /\ <<inst.out_xinst>> = inst.given)

\* u_system_devices_create_from_prober failed after leaving an object in a
\* local, and the function returned its error with both outputs NULL.
C23_Witness ==
  /\ Returned("t_instance_create_system")
  /\ inst.created /\ inst.ret = "XRT_ERROR_PROBING_FAILED"
  /\ inst.xsysd = "made"
  /\ inst.out_xsysd = "NULL" /\ inst.out_xso = "NULL"

(***************************************************************************)
(* The default device of the qwerty driver, for every device list.         *)
(***************************************************************************)
RolesInit ==
  /\ NoSolve
  /\ qwerty = QwertyStart
  /\ gui = GuiStart
  /\ inst = InstStart
  /\ roles = RolesStart

RolesRest ==
  UNCHANGED <<pc, stack, i, finger_idx, hands, in_pts, hand_idx, out_set,
              last, trace, count, hinge, prox, entry, qwerty, gui, inst>>

DefaultQwertyDeviceCall ==
  /\ roles.phase \in {"idle", "returned"}
  /\ \E xdevs \in XdevLists : roles' = default_qwerty_device_call(xdevs)
  /\ RolesRest

DefaultQwertyDeviceTest ==
  /\ roles.phase = "running"
  /\ roles' = default_qwerty_device_at(roles)
  /\ RolesRest

RolesNext == DefaultQwertyDeviceCall \/ DefaultQwertyDeviceTest

RolesSpec == RolesInit /\ [][RolesNext]_vars

\* The device a role names: the list's device at the role's index.
RoleIs(role, xd) ==
  /\ role \in 0..(Len(roles.xdevs) - 1)
  /\ xd # "NULL"
  /\ roles.xdevs[role + 1] = xd

\* C24: default_qwerty_device reads xdevs only at indices from 0 to
\* num_xdevs - 1, also when a role was left at XRT_DEVICE_ROLE_UNASSIGNED,
\* and returns the HMD if the head role is the qwerty HMD, else the right
\* controller if the right role is the qwerty right controller, else the
\* left controller if the left role is the qwerty left controller, else
\* the right controller.
C24_ValidIndex ==
  roles.phase # "idle" =>
    /\ roles.access \subseteq 0..(Len(roles.xdevs) - 1)
    /\ roles.phase = "returned" =>
         roles.default_qdev =
           IF RoleIs(roles.head, "qwerty_hmd") THEN "qwerty_hmd"
           ELSE IF RoleIs(roles.right, "qwerty_right") THEN "qwerty_right"
           ELSE IF RoleIs(roles.left, "qwerty_left") THEN "qwerty_left"
           ELSE roles.xd_right

====
